---- MODULE Spec2Model ----
(***************************************************************************)
(* State-machine model of mupdf-rs-mcp-server: the document store          *)
(* (src/src/state.rs), the tool handlers (src/src/tools/*.rs) and the      *)
(* dispatcher MupdfServer::call_tool (src/src/server.rs).                  *)
(*                                                                         *)
(* A tool call runs in one of the call slots.  A slot's pc names the       *)
(* region of the handler it is executing; an action executes that region   *)
(* and moves the slot to the next one.  The content engine (mupdf) is an   *)
(* external collaborator: a handle has a fixed page count, a document may  *)
(* be password-protected, and every fallible engine call may fail.         *)
(***************************************************************************)
EXTENDS Integers, Sequences, FiniteSets, TLC

VARIABLES
    documents,   \* DocumentStoreInner.documents: id -> StoredDocument
    lock,        \* holder of DocumentStore.inner's Mutex, 0 when free
    poisoned,    \* the Mutex is poisoned (a holder panicked)
    now,         \* the reading Instant::now() gives
    handles,     \* the engine's Document handles, in order of creation
    issued,      \* the ids Uuid::new_v4 has produced so far
    scenario,    \* the workload: which request shapes the callers send
    pc,          \* per call slot: the region of code being executed
    req,         \* per call slot: CallToolRequestParams (name, arguments)
    frame,       \* per call slot: the handler's locals
    result,      \* per call slot: call_tool's `result` (handler outcome)
    response,    \* per call slot: what call_tool returned
    imported,    \* history: the ids returned by a successful import_document,
                 \* each with the handle it was stored with
    closed,      \* history: ids removed by a successful close_document
    seen,        \* history, per call slot: what the id named by the request
                 \* was when the request arrived
    late         \* history, per call slot: the Mutex was already poisoned
                 \* when the request arrived

vars == <<documents, lock, poisoned, now, handles, issued, scenario, pc, req,
          frame, result, response, imported, closed, seen, late>>

(***************************************************************************)
(* Bounds of the model.                                                    *)
(***************************************************************************)
MaxHandles == 2    \* handles the engine can open in a run
MaxPages == 1      \* largest page count of a document
MaxTime == 1       \* last reading of the clock

\* the call slots: the tool calls that can be in flight at once
Threads == {1, 2}
NoThread == 0

Uuid(i) == "uuid-" \o ToString(i)
\* an id is drawn for a handle that was opened: no more ids than handles
UuidPool == { Uuid(i) : i \in 1..MaxHandles }
\* an id no import ever issued (tests/integration_tests.rs: "nonexistent-id")
UnknownId == "nonexistent-id"

(***************************************************************************)
(* JSON values of a request's `arguments` object.  A field that is not in  *)
(* the object is JAbsent.                                                  *)
(***************************************************************************)
JAbsent == [t |-> "absent"]
JNull == [t |-> "null"]
JStr(s) == [t |-> "string", s |-> s]
\* an integer that fits i32
JNum(n) == [t |-> "number", n |-> n, as |-> "i32"]
\* an integer beyond i32, such as 2147483648
JWideInt == [t |-> "number", n |-> 0, as |-> "i64"]
JText(c) == [t |-> "string", chars |-> c]
JObj(o) == [t |-> "object", o |-> o]

\* Option<T>
None == [none |-> TRUE]
Some(v) == [some |-> v]
IsSome(o) == "some" \in DOMAIN o

\* serde: a required String field
ParseString(j) == IF j.t = "string" THEN Some(j.s) ELSE None
\* serde: a required i32 field (serde_json rejects numbers outside i32)
ParseI32(j) ==
    IF j.t = "number" /\ j.as = "i32" THEN Some(j.n) ELSE None
\* serde: #[serde(default)] Option<String>: absent and null give None
ParseOptString(j) ==
    IF j.t \in {"absent", "null"} THEN Some(None)
    ELSE IF j.t = "string" THEN Some(Some(j.s))
    ELSE None

(***************************************************************************)
(* tools/session.rs: DocumentSource, an untagged enum.  serde tries the    *)
(* variants in order and keeps the first that deserializes; a field the    *)
(* variant does not name is ignored.                                       *)
(***************************************************************************)
ParseText(j) == IF j.t = "string" THEN Some(j.chars) ELSE None

\* a faulty variant of ParseSource: the Base64 variant is tried first
ParseSourceBase64First(j) ==
    IF j.t # "object" THEN None
    ELSE IF IsSome(ParseText(j.o.base64)) /\ IsSome(ParseOptString(j.o.filename))
    THEN Some([variant |-> "Base64", base64 |-> j.o.base64.chars,
               filename |-> ParseOptString(j.o.filename).some])
    ELSE IF IsSome(ParseString(j.o.path))
    THEN Some([variant |-> "FilePath", path |-> j.o.path.s])
    ELSE None

ParseSource(j) ==
    IF j.t # "object" THEN None
    ELSE IF IsSome(ParseString(j.o.path))
    THEN Some([variant |-> "FilePath", path |-> j.o.path.s])
    ELSE IF IsSome(ParseText(j.o.base64)) /\ IsSome(ParseOptString(j.o.filename))
    THEN Some([variant |-> "Base64", base64 |-> j.o.base64.chars,
               filename |-> ParseOptString(j.o.filename).some])
    ELSE None

SourceObj(path, b64, fname) == JObj([path |-> path, base64 |-> b64, filename |-> fname])

\* base64::engine::general_purpose::STANDARD: the 64 symbols and '=' padding
Base64Alphabet ==
    {"A","B","C","D","E","F","G","H","I","J","K","L","M","N","O","P","Q","R","S",
     "T","U","V","W","X","Y","Z","a","b","c","d","e","f","g","h","i","j","k","l",
     "m","n","o","p","q","r","s","t","u","v","w","x","y","z","0","1","2","3","4",
     "5","6","7","8","9","+","/"}

\* number of trailing '=' of a text
Padding(c) ==
    IF Len(c) >= 2 /\ c[Len(c)] = "=" /\ c[Len(c) - 1] = "=" THEN 2
    ELSE IF Len(c) >= 1 /\ c[Len(c)] = "=" THEN 1
    ELSE 0

\* STANDARD.decode: Some(number of bytes) or None (DecodeError)
Base64Decode(c) ==
    IF /\ Len(c) % 4 = 0
       /\ \A i \in 1..(Len(c) - Padding(c)) : c[i] \in Base64Alphabet
    THEN Some((3 * Len(c)) \div 4 - Padding(c))
    ELSE None

(***************************************************************************)
(* The tools' typed parameters (the Deserialize structs).  ParseParams is  *)
(* serde_json::from_value(Value::Object(args)) for the tool's struct:      *)
(* None is a deserialization error.                                        *)
(***************************************************************************)
\* a faulty variant of default_text_format: another of the four formats
default_text_format_html == "html"

\* page.rs 188: the hit limit search_page passes to the engine
HitMax == 100

\* text.rs default_text_format
default_text_format == "plain"
\* page.rs default_scale
default_scale == 1

\* serde: an f32 field takes any JSON number
ParseF32(j) == IF j.t = "number" THEN Some(j.n) ELSE None

ImportDocumentParams(a) ==
    IF IsSome(ParseSource(a.source)) /\ IsSome(ParseOptString(a.password))
    THEN Some([source |-> ParseSource(a.source).some,
               password |-> ParseOptString(a.password).some])
    ELSE None

DocumentIdParams(a) ==
    IF IsSome(ParseString(a.document_id))
    THEN Some([document_id |-> a.document_id.s])
    ELSE None

ListDocumentsParams(a) == Some([empty |-> TRUE])

GetPageBoundsParams(a) ==
    IF IsSome(ParseString(a.document_id)) /\ IsSome(ParseI32(a.page))
    THEN Some([document_id |-> a.document_id.s, page |-> a.page.n])
    ELSE None

GetPageTextParams(a) ==
    IF /\ IsSome(ParseString(a.document_id))
       /\ IsSome(ParseI32(a.page))
       /\ (a.format.t = "absent" \/ IsSome(ParseString(a.format)))
    THEN Some([document_id |-> a.document_id.s, page |-> a.page.n,
               format |-> IF a.format.t = "absent" THEN default_text_format
                          ELSE a.format.s])
    ELSE None

SearchPageParams(a) ==
    IF /\ IsSome(ParseString(a.document_id))
       /\ IsSome(ParseI32(a.page))
       /\ IsSome(ParseString(a.query))
    THEN Some([document_id |-> a.document_id.s, page |-> a.page.n,
               query |-> a.query.s])
    ELSE None

RenderPageParams(a) ==
    IF /\ IsSome(ParseString(a.document_id))
       /\ IsSome(ParseI32(a.page))
       /\ (a.scale.t = "absent" \/ IsSome(ParseF32(a.scale)))
    THEN Some([document_id |-> a.document_id.s, page |-> a.page.n,
               scale |-> IF a.scale.t = "absent" THEN default_scale ELSE a.scale.n])
    ELSE None

\* a faulty variant of Catalog: a handler is advertised that call_tool does
\* not bind
CatalogWithLinks ==
    {"import_document", "close_document", "list_documents", "get_page_count",
     "get_metadata", "get_outlines", "get_page_bounds", "get_page_text",
     "search_page", "render_page", "oneshot_get_bookmarks", "get_page_links"}

\* server.rs 81-264: the names list_tools advertises (the catalog)
Catalog ==
    {"import_document", "close_document", "list_documents", "get_page_count",
     "get_metadata", "get_outlines", "get_page_bounds", "get_page_text",
     "search_page", "render_page", "oneshot_get_bookmarks"}

\* the names call_tool's match binds to a handler (server.rs 276-352)
BoundTools ==
    {"import_document", "close_document", "list_documents", "get_page_count",
     "get_metadata", "get_outlines", "get_page_bounds", "get_page_text",
     "search_page", "render_page", "oneshot_get_bookmarks"}

\* the tools whose handler is store.with_document(id, closure)
WithDocumentTools ==
    {"get_metadata", "get_outlines", "get_page_bounds", "get_page_text",
     "search_page", "render_page"}

\* the closures that start with validate_page_number
PageScopedTools == {"get_page_bounds", "get_page_text", "search_page", "render_page"}

ParseParams(name, a) ==
    CASE name \in {"import_document", "oneshot_get_bookmarks"} -> ImportDocumentParams(a)
      [] name \in {"close_document", "get_page_count", "get_metadata", "get_outlines"}
            -> DocumentIdParams(a)
      [] name = "list_documents" -> ListDocumentsParams(a)
      [] name = "get_page_bounds" -> GetPageBoundsParams(a)
      [] name = "get_page_text" -> GetPageTextParams(a)
      [] name = "search_page" -> SearchPageParams(a)
      [] name = "render_page" -> RenderPageParams(a)

(***************************************************************************)
(* error.rs: MupdfServerError and its Display (the #[error] formats).      *)
(***************************************************************************)
DocumentNotFound(id) == [kind |-> "DocumentNotFound", id |-> id]
InvalidPageNumber(page, total, max) ==
    [kind |-> "InvalidPageNumber", page |-> page, total |-> total, max |-> max]
PasswordRequired == [kind |-> "PasswordRequired"]
InvalidPassword == [kind |-> "InvalidPassword"]
InvalidTextFormat(format) == [kind |-> "InvalidTextFormat", format |-> format]
Base64Error == [kind |-> "Base64Error"]
IoError == [kind |-> "IoError"]
\* #[from] mupdf::Error: what `?` makes of a failed engine call
MupdfError(call) == [kind |-> "MupdfError", call |-> call]
Internal(msg) == [kind |-> "Internal", msg |-> msg]

\* state.rs: the message every store method maps a failed lock() to
LockFailed == Internal("Failed to lock document store: poisoned lock")

\* e.to_string(), as the pieces of the formatted text
Display(e) ==
    CASE e.kind = "DocumentNotFound" -> <<"Document not found: ", e.id>>
      [] e.kind = "InvalidPageNumber" ->
            <<"Invalid page number: ", ToString(e.page), " (document has ",
              ToString(e.total), " pages, valid range: 0-", ToString(e.max), ")">>
      [] e.kind = "PasswordRequired" -> <<"Password required for this document">>
      [] e.kind = "InvalidPassword" -> <<"Invalid password">>
      [] e.kind = "InvalidTextFormat" ->
            <<"Invalid text format: ", e.format, " (valid formats: plain, html, json, xml)">>
      [] e.kind = "Base64Error" -> <<"Base64 decode error: ", "invalid input">>
      [] e.kind = "IoError" -> <<"IO error: ", "io">>
      [] e.kind = "MupdfError" -> <<"MuPDF error: ", e.call>>
      [] e.kind = "Internal" -> <<"Internal error: ", e.msg>>

\* Result<T>
Ok(v) == [ok |-> TRUE, value |-> v]
Err(e) == [ok |-> FALSE, error |-> e]

\* serde_json::to_string(&r): the JSON text of a result struct
ToJson(v) == [json |-> v]

(***************************************************************************)
(* server.rs: what call_tool returns.                                      *)
(***************************************************************************)
\* Err(McpError::invalid_params(..)): a protocol-level fault
InvalidParamsFault(msg) ==
    [kind |-> "protocol_fault", code |-> "invalid_params", message |-> msg]
\* Ok(CallToolResult::success(vec![Content::text(json)]))
ToolSuccess(json) == [kind |-> "tool_result", is_error |-> FALSE, content |-> json]
\* Ok(CallToolResult::error(vec![Content::text(e.to_string())]))
ToolError(text) == [kind |-> "tool_result", is_error |-> TRUE, content |-> [text |-> text]]

\* a faulty variant of Respond: a handler error leaves call_tool as an
\* McpError (`?` on the handler's result)
RespondFaultOnError(r) ==
    IF r.ok THEN ToolSuccess(r.value) ELSE InvalidParamsFault(Display(r.error))

\* server.rs 356-359: the mapping of the handler's outcome
Respond(r) == IF r.ok THEN ToolSuccess(r.value) ELSE ToolError(Display(r.error))

\* the handler's outcome as call_tool holds it: .map(|r| to_string(&r))
Serialized(r) == IF r.ok THEN Ok(ToJson(r.value)) ELSE r

(***************************************************************************)
(* The workload.  "concurrent": every call slot is in use, the callers     *)
(* send well-formed requests for known ids and the engine is healthy.      *)
(* "sequential": one caller sends every shape of request, and any engine   *)
(* call may fail.                                                          *)
(***************************************************************************)
Rich == scenario = "sequential"

\* handlers that exist in tools/ and that call_tool's match does not name:
\* page.rs 106, text.rs 136, document.rs 191, 219, 244, 278
UnboundHandlers ==
    {"get_page_links", "get_page_text_blocks", "needs_password", "is_pdf",
     "is_reflowable", "resolve_link"}

\* tool names a caller may send: the bound ones, the handlers that exist but
\* are not bound, and a stray
ToolNames ==
    IF Rich THEN BoundTools \cup UnboundHandlers \cup {"no_such_tool"}
    ELSE {"import_document", "close_document", "list_documents", "get_page_count",
          "get_page_bounds", "oneshot_get_bookmarks"}

NoArgs ==
    [document_id |-> JAbsent, page |-> JAbsent, format |-> JAbsent,
     scale |-> JAbsent, query |-> JAbsent, source |-> JAbsent, password |-> JAbsent]

\* Per field: the values that deserialize, and some that do not.
GoodDocIds == { JStr(i) : i \in UuidPool } \cup (IF Rich THEN {JStr(UnknownId)} ELSE {})
BadDocIds == IF Rich THEN {JAbsent, JNum(7)} ELSE {}

GoodPages == IF Rich THEN { JNum(p) : p \in (-1)..MaxPages } ELSE { JNum(0) }
BadPages == IF Rich THEN {JAbsent, JStr("0"), JWideInt} ELSE {}

GoodFormats ==
    IF Rich
    THEN {JAbsent, JStr("plain"), JStr("html"), JStr("json"), JStr("xml"), JStr("bogus")}
    ELSE {JAbsent}
BadFormats == IF Rich THEN {JNum(1)} ELSE {}

GoodScales == IF Rich THEN {JAbsent, JNum(1), JNum(2)} ELSE {JAbsent}
BadScales == IF Rich THEN {JStr("2")} ELSE {}

GoodQueries == {JStr("needle")}
BadQueries == IF Rich THEN {JAbsent} ELSE {}

\* session.rs tests: "SGVsbG8=" is well-formed base64; integration_tests.rs
\* test_invalid_base64: "not-valid-base64!!!" is not (here "!!!!")
GoodBase64 == <<"S", "G", "V", "s", "b", "G", "8", "=">>
BadBase64 == <<"!", "!", "!", "!">>

GoodSources ==
    { SourceObj(JStr("/tmp/test.pdf"), JAbsent, JAbsent) }
      \cup (IF Rich
            THEN { SourceObj(JAbsent, JText(GoodBase64), JStr("test.pdf")),
                   SourceObj(JAbsent, JText(BadBase64), JAbsent),
                   SourceObj(JAbsent, JText(GoodBase64), JNull),
                   SourceObj(JNum(5), JText(GoodBase64), JAbsent),
                   SourceObj(JStr("/tmp/test.pdf"), JText(GoodBase64), JAbsent) }
            ELSE {})
BadSources ==
    IF Rich
    THEN { JAbsent, JStr("/tmp/test.pdf"),
           SourceObj(JAbsent, JAbsent, JAbsent),
           SourceObj(JAbsent, JAbsent, JStr("test.pdf")),
           SourceObj(JAbsent, JText(GoodBase64), JNum(5)) }
    ELSE {}

\* the password that opens a protected document
DocPassword == "secret"

GoodPasswords ==
    {JAbsent} \cup (IF Rich THEN {JStr(DocPassword), JStr("wrong"), JNull} ELSE {})
BadPasswords == IF Rich THEN {JNum(1)} ELSE {}

\* a request with every field good, or with one field bad
OneBad(good, field, bad) ==
    { [g EXCEPT ![field] = b] : g \in {CHOOSE x \in good : TRUE}, b \in bad }

ArgsFor(name) ==
    CASE name \in {"import_document", "oneshot_get_bookmarks"} ->
            LET good == { [NoArgs EXCEPT !.source = s, !.password = p] :
                            s \in GoodSources, p \in GoodPasswords }
            IN  good \cup OneBad(good, "source", BadSources)
                     \cup OneBad(good, "password", BadPasswords)
      [] name \in {"close_document", "get_page_count", "get_metadata", "get_outlines"} ->
            LET good == { [NoArgs EXCEPT !.document_id = d] : d \in GoodDocIds }
            IN  good \cup OneBad(good, "document_id", BadDocIds)
      [] name = "list_documents" ->
            {NoArgs} \cup (IF Rich THEN {[NoArgs EXCEPT !.document_id = JNum(7)]} ELSE {})
      [] name = "get_page_bounds" ->
            LET good == { [NoArgs EXCEPT !.document_id = d, !.page = p] :
                            d \in GoodDocIds, p \in GoodPages }
            IN  good \cup OneBad(good, "document_id", BadDocIds)
                     \cup OneBad(good, "page", BadPages)
      [] name = "get_page_text" ->
            LET good == { [NoArgs EXCEPT !.document_id = d, !.page = p, !.format = f] :
                            d \in GoodDocIds, p \in GoodPages, f \in GoodFormats }
            IN  good \cup OneBad(good, "document_id", BadDocIds)
                     \cup OneBad(good, "page", BadPages)
                     \cup OneBad(good, "format", BadFormats)
      [] name = "search_page" ->
            LET good == { [NoArgs EXCEPT !.document_id = d, !.page = p, !.query = q] :
                            d \in GoodDocIds, p \in GoodPages, q \in GoodQueries }
            IN  good \cup OneBad(good, "document_id", BadDocIds)
                     \cup OneBad(good, "page", BadPages)
                     \cup OneBad(good, "query", BadQueries)
      [] name = "render_page" ->
            LET good == { [NoArgs EXCEPT !.document_id = d, !.page = p, !.scale = x] :
                            d \in GoodDocIds, p \in GoodPages, x \in GoodScales }
            IN  good \cup OneBad(good, "document_id", BadDocIds)
                     \cup OneBad(good, "page", BadPages)
                     \cup OneBad(good, "scale", BadScales)
      [] OTHER -> {NoArgs}

(***************************************************************************)
(* State after construction: DocumentStore::new (state.rs 86-92), no call  *)
(* in flight.                                                              *)
(***************************************************************************)
NoRequest == [name |-> "", args |-> NoArgs]
NoResult == [none |-> TRUE]
NoResponse == [kind |-> "none"]
EmptyFrame ==
    [doc |-> 0, page_count |-> 0, info |-> None, calls |-> << >>,
     needs_password |-> None]
\* the locals of a handler that has returned: only the record of the engine
\* calls it made is kept
Returned(calls) == [EmptyFrame EXCEPT !.calls = calls]

InitStore ==
    /\ documents = << >>
    /\ lock = NoThread
    /\ poisoned = FALSE
    /\ now = 0
    /\ handles = << >>
    /\ issued = {}
    /\ req = [t \in Threads |-> NoRequest]
    /\ frame = [t \in Threads |-> EmptyFrame]
    /\ result = [t \in Threads |-> NoResult]
    /\ response = [t \in Threads |-> NoResponse]
    /\ imported = << >>
    /\ closed = {}
    /\ seen = [t \in Threads |-> "none"]
    /\ late = [t \in Threads |-> FALSE]

Init ==
    /\ InitStore
    /\ scenario = "concurrent"
    /\ pc = [t \in Threads |-> "idle"]

InitSequential ==
    /\ InitStore
    /\ scenario = "sequential"
    /\ pc = [t \in Threads |-> IF t = 1 THEN "idle" ELSE "off"]

\* the racing callers of "concurrent", all opening copies of one file
InitUniform ==
    /\ InitStore
    /\ scenario = "uniform"
    /\ pc = [t \in Threads |-> "idle"]

(***************************************************************************)
(* The content engine, at its interface.  A handle is created by           *)
(* Document::open / Document::from_bytes and released when the Document is *)
(* dropped; `released` counts the drops.  Every fallible engine call of a  *)
(* step may be the one that fails: `fault` names it ("none": none fails).  *)
(***************************************************************************)
PageCounts == 0..MaxPages

\* Lengths in points are f32 in the code; here they are counted in quarters
\* of a point, which holds every length of the workload exactly.
\* The page boxes of the files the callers open: US Letter (612 x 792 pt,
\* the test document), and a page of 612.5 x 792.25 pt.
Letter == [w |-> 2448, h |-> 3168]
Fractional == [w |-> 2450, h |-> 3169]

\* the page box of the h-th document the engine opens
MediaBox(h) == IF h % 2 = 1 THEN Letter ELSE Fractional

\* how often the query of the workload occurs on a page of the h-th document
\* the engine opens: a few times, more often than a search reports, or
\* exactly as often
Matches(h) == IF h % 3 = 1 THEN 2 ELSE IF h % 3 = 2 THEN HitMax + 1 ELSE HitMax

\* the i-th occurrence on a page, in the engine's order: a Quad
Quad(i) ==
    [ul |-> [x |-> i, y |-> 0], ur |-> [x |-> i + 1, y |-> 0],
     ll |-> [x |-> i, y |-> 1], lr |-> [x |-> i + 1, y |-> 1]]

\* Page::search(needle, hit_max): the engine stops at hit_max occurrences
Search(matches, hit_max) ==
    [i \in 1..(IF matches < hit_max THEN matches ELSE hit_max) |-> Quad(i)]

\* Page::to_pixmap (page.rs 255) with Matrix::new_scale(scale, scale): the
\* pixmap covers the scaled page box, from its origin to the first whole
\* pixel at or beyond its far edge (the engine rounds the far edge up, less a
\* tolerance of 0.001 pixel); pixmap.width() and height() are whole numbers
PixmapExtent(quarters, scale) == (quarters * scale + 3) \div 4

EngineCall(name, fault, value) ==
    IF fault = name THEN Err(MupdfError(name)) ELSE Ok(value)

\* the engine calls that may fail in the workload
Faults(S) == IF Rich THEN S ELSE {"none"}

\* drop of a Document: the handle is released and nothing of it remains
\* a faulty variant of Release: the Document is forgotten, never dropped
ReleaseNothing(hs, h) == hs

\* a faulty variant of Release: the Document is dropped twice
ReleaseTwice(hs, h) == [hs EXCEPT ![h].pages = 0, ![h].released = @ + 2]

Release(hs, h) == [hs EXCEPT ![h].pages = 0, ![h].released = @ + 1]

Live(h) == h \in 1..Len(handles) /\ handles[h].released = 0

\* mupdf::Outline: title, dest (a resolved destination or none), uri, down
Outline(title, dest, uri, down) ==
    [title |-> title, dest |-> dest, uri |-> uri, down |-> down]

\* a URI as its characters
HttpsUri == <<"h", "t", "t", "p", "s", ":", "/", "/", "x">>
InternalUri == <<"#", "p", "a", "g", "e", "=", "1">>
HttpUri == <<"h", "t", "t", "p", ":", "/", "/", "x">>
MailtoUri == <<"m", "a", "i", "l", "t", "o", ":", "x">>
FtpUri == <<"f", "t", "p", ":", "/", "/", "x">>

\* the outline trees the engine may report for a document
OutlineSamples ==
    { << Outline("Part", None, Some(HttpsUri),
                 << Outline("Leaf", Some(1), None, << >>) >>) >> }
      \cup (IF Rich
            THEN { << >>, << Outline("Intro", Some(0), Some(InternalUri), << >>) >>,
                   << Outline("Mail", Some(0), Some(MailtoUri), << >>),
                      Outline("Ftp", None, Some(FtpUri),
                              << Outline("Web", Some(1), Some(HttpUri), << >>) >>) >> }
            ELSE {})

(***************************************************************************)
(* tools/session.rs 32-55: DocumentSource::open against an engine whose    *)
(* document is `protected` or not.  created: a Document came to exist;     *)
(* res: what open returned; calls: the engine calls made, in order.        *)
(***************************************************************************)
OpenFaults == {"none", "open", "needs_password", "authenticate"}

\* what the engine may do at an open: the document's page count, whether it
\* is protected, and the call that fails; what a failed call hides is not
\* enumerated
OpenChoices ==
    { c \in [pages : PageCounts, protected : BOOLEAN, fault : Faults(OpenFaults)] :
        /\ c.fault \in {"open", "needs_password"} => c.pages = 0 /\ ~c.protected
        /\ c.fault = "authenticate" => c.pages = 0 /\ c.protected
        /\ scenario = "uniform" => c.pages = MaxPages /\ ~c.protected }

OpenCall(source) == IF source.variant = "FilePath" THEN "open" ELSE "from_bytes"

\* a faulty variant of SourceOpen: the password is only looked at when one
\* was supplied, so a protected document opens without one
SourceOpenUnguarded(source, password, protected, fault) ==
    IF source.variant = "Base64" /\ ~IsSome(Base64Decode(source.base64))
    THEN [created |-> FALSE, res |-> Err(Base64Error), calls |-> << >>,
          needs_password |-> None]
    ELSE IF protected /\ IsSome(password) /\ password.some # DocPassword
    THEN [created |-> TRUE, res |-> Err(InvalidPassword),
          calls |-> <<OpenCall(source), "needs_password", "authenticate">>,
          needs_password |-> Some(TRUE)]
    ELSE [created |-> TRUE, res |-> Ok("doc"),
          calls |-> <<OpenCall(source), "needs_password">>,
          needs_password |-> Some(protected)]

\* DocumentSource::open (session.rs 32-55); needs_password is what
\* doc.needs_password() answered, when it was asked and answered
SourceOpen(source, password, protected, fault) ==
    IF source.variant = "Base64" /\ ~IsSome(Base64Decode(source.base64))
    THEN [created |-> FALSE, res |-> Err(Base64Error), calls |-> << >>,
          needs_password |-> None]
    ELSE IF fault = "open"
    THEN [created |-> FALSE, res |-> Err(MupdfError(OpenCall(source))),
          calls |-> <<OpenCall(source)>>, needs_password |-> None]
    ELSE IF fault = "needs_password"
    THEN [created |-> TRUE, res |-> Err(MupdfError("needs_password")),
          calls |-> <<OpenCall(source), "needs_password">>,
          needs_password |-> None]
    ELSE IF ~protected
    THEN [created |-> TRUE, res |-> Ok("doc"),
          calls |-> <<OpenCall(source), "needs_password">>,
          needs_password |-> Some(FALSE)]
    ELSE IF ~IsSome(password)
    THEN [created |-> TRUE, res |-> Err(PasswordRequired),
          calls |-> <<OpenCall(source), "needs_password">>,
          needs_password |-> Some(TRUE)]
    ELSE IF fault = "authenticate"
    THEN [created |-> TRUE, res |-> Err(MupdfError("authenticate")),
          calls |-> <<OpenCall(source), "needs_password", "authenticate">>,
          needs_password |-> Some(TRUE)]
    ELSE IF password.some # DocPassword
    THEN [created |-> TRUE, res |-> Err(InvalidPassword),
          calls |-> <<OpenCall(source), "needs_password", "authenticate">>,
          needs_password |-> Some(TRUE)]
    ELSE [created |-> TRUE, res |-> Ok("doc"),
          calls |-> <<OpenCall(source), "needs_password", "authenticate">>,
          needs_password |-> Some(TRUE)]

\* a faulty variant of validate_page_number: the upper check is off by one
validate_page_number_inclusive(count, page) ==
    IF ~count.ok THEN count
    ELSE IF page < 0 \/ page > count.value
    THEN Err([kind |-> "InvalidPageNumber", page |-> page, total |-> count.value,
              max |-> count.value - 1])
    ELSE [ok |-> TRUE, value |-> "unit"]

(***************************************************************************)
(* tools/page.rs 12-22 and tools/text.rs 11-21: validate_page_number.      *)
(* count is the Result of doc.page_count().                                *)
(***************************************************************************)
validate_page_number(count, page) ==
    IF ~count.ok THEN count
    ELSE IF page < 0 \/ page >= count.value
    THEN Err(InvalidPageNumber(page, count.value, count.value - 1))
    ELSE Ok("unit")

\* the common head of the page-scoped closures: validate, then load_page
LoadValidPage(p, doc, fault) ==
    LET v == validate_page_number(EngineCall("page_count", fault, doc.pages), p.page)
    IN  IF ~v.ok THEN [res |-> v, calls |-> <<"page_count">>]
        ELSE IF fault = "load_page"
        THEN [res |-> Err(MupdfError("load_page")), calls |-> <<"page_count", "load_page">>]
        ELSE [res |-> Ok("page"), calls |-> <<"page_count", "load_page">>]

\* page.rs 49-65: the closure of get_page_bounds
get_page_bounds(p, doc, fault) ==
    LET page == LoadValidPage(p, doc, fault)
    IN  IF ~page.res.ok THEN page
        ELSE IF fault = "bounds"
        THEN [res |-> Err(MupdfError("bounds")), calls |-> Append(page.calls, "bounds")]
        ELSE [res |-> Ok([width |-> doc.mediabox.w, height |-> doc.mediabox.h,
                          x0 |-> 0, y0 |-> 0]),
              calls |-> Append(page.calls, "bounds")]

\* a faulty variant of get_page_text: an unrecognized format is served as
\* plain text
get_page_text_lenient(p, doc, fault) ==
    LET page == LoadValidPage(p, doc, fault)
        calls == Append(page.calls, "to_text_page")
    IN  IF ~page.res.ok THEN page
        ELSE IF fault = "to_text_page"
        THEN [res |-> Err(MupdfError("to_text_page")), calls |-> calls]
        ELSE IF p.format \in {"html", "json", "xml"}
        THEN IF fault = "serialize"
             THEN [res |-> Err(MupdfError("to_" \o p.format)),
                   calls |-> Append(calls, "to_" \o p.format)]
             ELSE [res |-> Ok([text |-> [of |-> p.format, page |-> p.page],
                               format |-> p.format]),
                   calls |-> Append(calls, "to_" \o p.format)]
        ELSE [res |-> Ok([text |-> [of |-> "blocks", page |-> p.page], format |-> p.format]),
              calls |-> calls]

\* a faulty variant of get_page_text: the format name is checked first,
\* before the page number
get_page_text_format_first(p, doc, fault) ==
    LET page == LoadValidPage(p, doc, fault)
        calls == Append(page.calls, "to_text_page")
    IN  IF p.format \notin {"plain", "html", "json", "xml"}
        THEN [res |-> Err(InvalidTextFormat(p.format)), calls |-> << >>]
        ELSE IF ~page.res.ok THEN page
        ELSE IF fault = "to_text_page"
        THEN [res |-> Err(MupdfError("to_text_page")), calls |-> calls]
        ELSE IF p.format = "plain"
        THEN [res |-> Ok([text |-> [of |-> "blocks", page |-> p.page], format |-> p.format]),
              calls |-> calls]
        ELSE IF fault = "serialize"
        THEN [res |-> Err(MupdfError("to_" \o p.format)),
              calls |-> Append(calls, "to_" \o p.format)]
        ELSE [res |-> Ok([text |-> [of |-> p.format, page |-> p.page],
                          format |-> p.format]),
              calls |-> Append(calls, "to_" \o p.format)]

\* text.rs 51-88: the closure of get_page_text
get_page_text(p, doc, fault) ==
    LET page == LoadValidPage(p, doc, fault)
        calls == Append(page.calls, "to_text_page")
    IN  IF ~page.res.ok THEN page
        ELSE IF fault = "to_text_page"
        THEN [res |-> Err(MupdfError("to_text_page")), calls |-> calls]
        ELSE IF p.format = "plain"
        THEN [res |-> Ok([text |-> [of |-> "blocks", page |-> p.page], format |-> p.format]),
              calls |-> calls]
        ELSE IF p.format \in {"html", "json", "xml"}
        THEN IF fault = "serialize"
             THEN [res |-> Err(MupdfError("to_" \o p.format)),
                   calls |-> Append(calls, "to_" \o p.format)]
             ELSE [res |-> Ok([text |-> [of |-> p.format, page |-> p.page],
                               format |-> p.format]),
                   calls |-> Append(calls, "to_" \o p.format)]
        ELSE [res |-> Err(InvalidTextFormat(p.format)), calls |-> calls]

\* page.rs 186-207: a SearchHit from a Quad
SearchHit(quad) == [ul |-> quad.ul, ur |-> quad.ur, ll |-> quad.ll, lr |-> quad.lr]

\* a faulty variant of search_page: the engine is given no effective limit
search_page_uncapped(p, doc, fault) ==
    LET page == LoadValidPage(p, doc, fault)
        quads == Search(doc.matches, doc.matches)
    IN  IF ~page.res.ok THEN page
        ELSE IF fault = "search"
        THEN [res |-> Err(MupdfError("search")), calls |-> Append(page.calls, "search")]
        ELSE [res |-> Ok([hits |-> [i \in 1..Len(quads) |-> SearchHit(quads[i])]]),
              calls |-> Append(page.calls, "search")]

\* page.rs 178-212: the closure of search_page
search_page(p, doc, fault) ==
    LET page == LoadValidPage(p, doc, fault)
        quads == Search(doc.matches, HitMax)
    IN  IF ~page.res.ok THEN page
        ELSE IF fault = "search"
        THEN [res |-> Err(MupdfError("search")), calls |-> Append(page.calls, "search")]
        ELSE [res |-> Ok([hits |-> [i \in 1..Len(quads) |-> SearchHit(quads[i])]]),
              calls |-> Append(page.calls, "search")]

\* page.rs 246-272: the closure of render_page
render_page(p, doc, fault) ==
    LET page == LoadValidPage(p, doc, fault)
    IN  IF ~page.res.ok THEN page
        ELSE IF fault = "to_pixmap"
        THEN [res |-> Err(MupdfError("to_pixmap")), calls |-> Append(page.calls, "to_pixmap")]
        ELSE IF fault = "write_to"
        THEN [res |-> Err(MupdfError("write_to")),
              calls |-> page.calls \o <<"to_pixmap", "write_to">>]
        ELSE [res |-> Ok([image |-> "png",
                          width |-> PixmapExtent(doc.mediabox.w, p.scale),
                          height |-> PixmapExtent(doc.mediabox.h, p.scale),
                          format |-> "png"]),
              calls |-> page.calls \o <<"to_pixmap", "write_to">>]

\* document.rs 68-105: the closure of get_metadata; a field the engine
\* fails on, or reports empty, is None
MetadataFields ==
    {"title", "author", "subject", "keywords", "creator", "producer",
     "creation_date", "modification_date"}

\* a faulty variant of get_metadata: the filter on empty strings is missing
get_metadata_unfiltered(p, doc, meta) ==
    [res |-> Ok([f \in MetadataFields |->
                    IF meta[f].ok THEN Some(meta[f].value) ELSE None]),
     calls |-> <<"metadata">>]

\* document.rs 68-105: the closure of get_metadata
get_metadata(p, doc, meta) ==
    [res |-> Ok([f \in MetadataFields |->
                    IF meta[f].ok /\ meta[f].value # "" THEN Some(meta[f].value) ELSE None]),
     calls |-> <<"metadata">>]

\* what the engine may answer for the metadata of a document
MetadataSamples ==
    { [f \in MetadataFields |-> IF f = "title" THEN a ELSE b] :
        a \in {Ok("Dummy")} \cup (IF Rich THEN {Ok(""), Err(MupdfError("metadata"))} ELSE {}),
        b \in {Ok("")} \cup (IF Rich THEN {Ok("x")} ELSE {}) }

\* str::starts_with
StartsWith(u, prefix) ==
    Len(u) >= Len(prefix) /\ SubSeq(u, 1, Len(prefix)) = prefix

\* a faulty variant of IsExternal: every URI is kept
IsExternalAlways(u) == TRUE

\* document.rs 146: the schemes convert_outline keeps
IsExternal(u) ==
    \/ StartsWith(u, <<"h", "t", "t", "p", ":", "/", "/">>)
    \/ StartsWith(u, <<"h", "t", "t", "p", "s", ":", "/", "/">>)
    \/ StartsWith(u, <<"m", "a", "i", "l", "t", "o", ":">>)

\* document.rs 137-162: convert_outline
RECURSIVE convert_outline(_)
convert_outline(outline) ==
    [title |-> outline.title,
     page |-> outline.dest,
     uri |-> IF IsSome(outline.uri) /\ IsExternal(outline.uri.some)
             THEN outline.uri ELSE None,
     children |-> [i \in 1..Len(outline.down) |-> convert_outline(outline.down[i])]]

\* document.rs 165-172: the closure of get_outlines
get_outlines(p, doc, fault, outlines) ==
    IF fault = "outlines"
    THEN [res |-> Err(MupdfError("outlines")), calls |-> <<"outlines">>]
    ELSE [res |-> Ok([outlines |-> [i \in 1..Len(outlines) |-> convert_outline(outlines[i])]]),
          calls |-> <<"outlines">>]

\* highlevel.rs 45-63: collect_bookmarks, as the entries it pushes
RECURSIVE collect_bookmarks(_, _)
RECURSIVE collect_all(_, _)
collect_all(outlines, level) ==
    IF outlines = << >> THEN << >>
    ELSE collect_bookmarks(Head(outlines), level) \o collect_all(Tail(outlines), level)
\* a faulty variant of collect_bookmarks: the children are pushed at their
\* parent's level
collect_bookmarks_flat(outline, level) ==
    <<[title |-> outline.title, page |-> outline.dest, level |-> level]>>
        \o collect_all(outline.down, level)

collect_bookmarks(outline, level) ==
    <<[title |-> outline.title, page |-> outline.dest, level |-> level]>>
        \o collect_all(outline.down, level + 1)

\* the engine calls each tool's closure makes, any of which may fail
ClosureFaults(name) ==
    {"none"} \cup
    (CASE name = "get_metadata" -> {}
       [] name = "get_outlines" -> {"outlines"}
       [] name = "get_page_bounds" -> {"page_count", "load_page", "bounds"}
       [] name = "get_page_text" -> {"page_count", "load_page", "to_text_page", "serialize"}
       [] name = "search_page" -> {"page_count", "load_page", "search"}
       [] name = "render_page" -> {"page_count", "load_page", "to_pixmap", "write_to"})

\* what the engine may answer to the tool's queries
ClosureMetadata(name) ==
    IF name = "get_metadata" THEN MetadataSamples ELSE {CHOOSE m \in MetadataSamples : TRUE}
ClosureOutlines(name) ==
    IF name = "get_outlines" THEN OutlineSamples ELSE {CHOOSE o \in OutlineSamples : TRUE}

(***************************************************************************)
(* state.rs: the store's map and the operations on it.                     *)
(***************************************************************************)
\* HashMap::insert(id, stored): an existing entry under id is replaced
MapInsert(docs, id, stored) ==
    [k \in DOMAIN docs \cup {id} |-> IF k = id THEN stored ELSE docs[k]]

\* a faulty variant of MapRemove: the entry stays in the map
MapRemoveNothing(docs, id) == docs

\* HashMap::remove(id)
MapRemove(docs, id) == [k \in DOMAIN docs \ {id} |-> docs[k]]

\* a faulty variant of NewV4: an id is fresh only among the open sessions
NewV4Reusing == { u \in UuidPool : u \notin DOMAIN documents }

\* state.rs 38: Uuid::new_v4, a value no earlier call produced (the values
\* are interchangeable: the next one of the pool stands for any fresh one)
NewV4 == { u \in UuidPool \ issued : u = Uuid(Cardinality(issued) + 1) }

\* a faulty variant of StoredDocumentNew: the page count is not cached
StoredDocumentNewUncounted(h, page_count, time, id) ==
    [document |-> h,
     info |-> [id |-> id, page_count |-> 0, created_at |-> time, last_accessed |-> time]]

\* state.rs 35-49: StoredDocument::new, given page_count's answer, the
\* clock's reading and the fresh id
StoredDocumentNew(h, page_count, time, id) ==
    [document |-> h,
     info |-> [id |-> id, page_count |-> page_count,
               created_at |-> time, last_accessed |-> time]]

\* a faulty variant of Touch: last_accessed is left as it was
TouchNothing(stored, time) == stored

\* a faulty variant of Touch: both timestamps are set
TouchBoth(stored, time) ==
    [stored EXCEPT !.info.last_accessed = time, !.info.created_at = time]

\* state.rs 52-54: StoredDocument::touch
Touch(stored, time) == [stored EXCEPT !.info.last_accessed = time]

\* state.rs 110-120: get_info under the lock
GetInfo(docs, id) ==
    IF id \in DOMAIN docs THEN Ok(docs[id].info) ELSE Err(DocumentNotFound(id))

\* state.rs 175-181: list; the HashMap yields its values in some order
Orders(S) == { o \in [1..Cardinality(S) -> S] : \A i, j \in DOMAIN o : o[i] = o[j] => i = j }
\* the orders considered: every one, or one of them where the workload's
\* callers do not look at the order
IterationOrders(S) == IF Rich THEN Orders(S) ELSE {CHOOSE o \in Orders(S) : TRUE}
\* a faulty variant of StoreList: documents without pages are left out
StoreListSkipsEmpty(docs, order) ==
    LET all == [i \in DOMAIN order |-> docs[order[i]].info]
        keep(info) == info.page_count > 0
    IN  SelectSeq(all, keep)
StoreList(docs, order) == [i \in DOMAIN order |-> docs[order[i]].info]

\* session.rs 144-159: list_documents' mapping of the infos
ListEntries(infos, time) ==
    [i \in DOMAIN infos |->
        [document_id |-> infos[i].id, page_count |-> infos[i].page_count,
         age_seconds |-> time - infos[i].created_at]]

(***************************************************************************)
(* server.rs 266-361: call_tool up to the handler: the match on the name   *)
(* and the parse of the arguments.  fault: the McpError returned by `?` or *)
(* by the `_` arm; entry: the first region of the bound handler.           *)
(***************************************************************************)
Entry(name) ==
    CASE name = "import_document" -> "import_open"
      [] name = "oneshot_get_bookmarks" -> "oneshot_open"
      [] name = "close_document" -> "remove"
      [] name = "list_documents" -> "list"
      [] name = "get_page_count" -> "get_info"
      [] name \in WithDocumentTools -> "with_document"

\* a faulty variant of Dispatch: the `_` arm answers with a tool error
DispatchUnknownAsToolError(name, args) ==
    IF name \notin BoundTools
    THEN [fault |-> Some(ToolError(<<"Unknown tool: ", name>>)), entry |-> "done"]
    ELSE IF ~IsSome(ParseParams(name, args))
    THEN [fault |-> Some(InvalidParamsFault(<<"invalid arguments">>)), entry |-> "done"]
    ELSE [fault |-> None, entry |-> Entry(name)]

Dispatch(name, args) ==
    IF name \notin BoundTools
    THEN [fault |-> Some(InvalidParamsFault(<<"Unknown tool: ", name>>)), entry |-> "done"]
    ELSE IF ~IsSome(ParseParams(name, args))
    THEN [fault |-> Some(InvalidParamsFault(<<"invalid arguments">>)), entry |-> "done"]
    ELSE [fault |-> None, entry |-> Entry(name)]

\* the typed parameters of the call in slot t
Params(t) == ParseParams(req[t].name, req[t].args).some

\* the end of call_tool: the handler's outcome r is mapped to the response
Finish(t, r) ==
    /\ result' = [result EXCEPT ![t] = Serialized(r)]
    /\ response' = [response EXCEPT ![t] = Respond(Serialized(r))]
    /\ pc' = [pc EXCEPT ![t] = "done"]

Continue(t, next) ==
    /\ pc' = [pc EXCEPT ![t] = next]
    /\ UNCHANGED <<result, response>>

\* a caller sends a request; call_tool matches the name and parses
\* what the id a request names is when the request arrives
IdStatus(name, args) ==
    LET p == ParseParams(name, args)
    IN  IF name \notin BoundTools \/ ~IsSome(p) THEN "none"
        ELSE IF "document_id" \notin DOMAIN p.some THEN "none"
        ELSE IF p.some.document_id \in closed THEN "closed"
        ELSE IF p.some.document_id \in DOMAIN documents THEN "open"
        ELSE "unissued"

\* the calls about to open a document; the model takes a call that opens one
\* only while the engine has a handle left for it
Opening == {u \in Threads : pc[u] \in {"import_open", "oneshot_open"}}

CallTool(t) ==
    /\ pc[t] = "idle"
    /\ \E name \in ToolNames : \E args \in ArgsFor(name) :
        LET d == Dispatch(name, args)
        IN  /\ d.entry \in {"import_open", "oneshot_open"} =>
                  Len(handles) + Cardinality(Opening) < MaxHandles
            /\ req' = [req EXCEPT ![t] = [name |-> name, args |-> args]]
            /\ frame' = [frame EXCEPT ![t] = EmptyFrame]
            /\ result' = [result EXCEPT ![t] = NoResult]
            /\ response' = [response EXCEPT ![t] =
                                IF IsSome(d.fault) THEN d.fault.some ELSE NoResponse]
            /\ pc' = [pc EXCEPT ![t] = d.entry]
            /\ seen' = [seen EXCEPT ![t] = IdStatus(name, args)]
            /\ late' = [late EXCEPT ![t] = poisoned]
    /\ UNCHANGED <<documents, lock, poisoned, now, handles, issued, scenario,
                   imported, closed>>

\* the response leaves the server and the call is over
Reply(t) ==
    /\ pc[t] = "done"
    /\ pc' = [pc EXCEPT ![t] = "idle"]
    /\ req' = [req EXCEPT ![t] = NoRequest]
    /\ frame' = [frame EXCEPT ![t] = EmptyFrame]
    /\ result' = [result EXCEPT ![t] = NoResult]
    /\ response' = [response EXCEPT ![t] = NoResponse]
    /\ seen' = [seen EXCEPT ![t] = "none"]
    /\ late' = [late EXCEPT ![t] = FALSE]
    /\ UNCHANGED <<documents, lock, poisoned, now, handles, issued, scenario,
                   imported, closed>>

(***************************************************************************)
(* import_document (session.rs 80-92) with DocumentStore::insert           *)
(* (state.rs 97-107), region by region.                                    *)
(***************************************************************************)
\* session.rs 84 / highlevel.rs 72: params.source.open(password)
OpenStep(t, next) ==
    \E c \in OpenChoices :
        LET o == SourceOpen(Params(t).source, Params(t).password, c.protected, c.fault)
            pages == c.pages
            h == Len(handles) + 1
        IN  /\ o.created => Len(handles) < MaxHandles
            /\ handles' =
                 IF o.created
                 THEN Append(handles, [pages |-> IF o.res.ok THEN pages ELSE 0,
                                       released |-> IF o.res.ok THEN 0 ELSE 1,
                                       mediabox |-> MediaBox(h),
                                       matches |-> Matches(h)])
                 ELSE handles
            /\ frame' = [frame EXCEPT ![t] =
                            IF o.res.ok
                            THEN [@ EXCEPT !.doc = h, !.calls = o.calls,
                                           !.needs_password = o.needs_password]
                            ELSE [Returned(o.calls) EXCEPT
                                     !.needs_password = o.needs_password]]
            /\ IF o.res.ok THEN Continue(t, next) ELSE Finish(t, o.res)
            /\ UNCHANGED <<documents, lock, poisoned, now, issued, scenario, req,
                           imported, closed, seen, late>>

ImportOpen(t) ==
    /\ pc[t] = "import_open"
    /\ OpenStep(t, "import_page_count")

\* session.rs 85: let page_count = doc.page_count()?
ImportPageCount(t) ==
    /\ pc[t] = "import_page_count"
    /\ \E fault \in Faults({"none", "page_count"}) :
        LET c == EngineCall("page_count", fault, handles[frame[t].doc].pages)
        IN  IF c.ok
            THEN /\ frame' = [frame EXCEPT ![t].page_count = c.value,
                                           ![t].calls = Append(@, "page_count")]
                 /\ Continue(t, "insert_new")
                 /\ UNCHANGED handles
            ELSE /\ frame' = [frame EXCEPT ![t] =
                                Returned(Append(frame[t].calls, "page_count"))]
                 /\ handles' = Release(handles, frame[t].doc)
                 /\ Finish(t, c)
    /\ UNCHANGED <<documents, lock, poisoned, now, issued, scenario, req,
                   imported, closed, seen, late>>

\* state.rs 98: StoredDocument::new(document)?, before the lock is taken
InsertNew(t) ==
    /\ pc[t] = "insert_new"
    /\ \E fault \in Faults({"none", "page_count"}) :
        LET c == EngineCall("page_count", fault, handles[frame[t].doc].pages)
        IN  IF c.ok
            THEN \E id \in NewV4 :
                 /\ frame' = [frame EXCEPT
                        ![t].info = Some(StoredDocumentNew(frame[t].doc, c.value, now, id).info),
                        ![t].calls = Append(@, "page_count")]
                 /\ issued' = issued \cup {id}
                 /\ Continue(t, "insert_lock")
                 /\ UNCHANGED handles
            ELSE /\ frame' = [frame EXCEPT ![t] =
                                Returned(Append(frame[t].calls, "page_count"))]
                 /\ handles' = Release(handles, frame[t].doc)
                 /\ Finish(t, c)
                 /\ UNCHANGED issued
    /\ UNCHANGED <<documents, lock, poisoned, now, scenario, req, imported, closed, seen, late>>

\* state.rs 101-106 and session.rs 88-91: lock, insert, unlock, return
InsertLock(t) ==
    /\ pc[t] = "insert_lock"
    /\ lock = NoThread
    /\ LET id == frame[t].info.some.id
           stored == [document |-> frame[t].doc, info |-> frame[t].info.some]
       IN  IF poisoned
           THEN /\ handles' = Release(handles, frame[t].doc)
                /\ Finish(t, Err(LockFailed))
                /\ UNCHANGED <<documents, imported>>
           ELSE /\ documents' = MapInsert(documents, id, stored)
                /\ handles' = IF id \in DOMAIN documents
                              THEN Release(handles, documents[id].document)
                              ELSE handles
                /\ imported' = [k \in DOMAIN imported \cup {id} |->
                                 IF k = id THEN frame[t].doc ELSE imported[k]]
                /\ Finish(t, Ok([document_id |-> id, page_count |-> frame[t].page_count]))
    /\ frame' = [frame EXCEPT ![t] = Returned(frame[t].calls)]
    /\ UNCHANGED <<lock, poisoned, now, issued, scenario, req, closed, seen, late>>

(***************************************************************************)
(* close_document (session.rs 111-117) with DocumentStore::remove          *)
(* (state.rs 162-172): one critical section; the removed StoredDocument is *)
(* dropped, and its handle released, before the guard is.                  *)
(***************************************************************************)
\* a faulty variant of Remove: the Option that HashMap::remove returns is
\* ignored, so closing an absent id succeeds
RemoveIgnoringAbsent(t) ==
    /\ pc[t] = "remove"
    /\ lock = NoThread
    /\ LET id == Params(t).document_id
       IN  /\ documents' = MapRemove(documents, id)
           /\ handles' = IF id \in DOMAIN documents
                         THEN Release(handles, documents[id].document)
                         ELSE handles
           /\ closed' = closed \cup {id}
           /\ Finish(t, Ok([success |-> TRUE]))
    /\ UNCHANGED <<lock, poisoned, now, issued, scenario, req, frame, imported, seen, late>>

Remove(t) ==
    /\ pc[t] = "remove"
    /\ lock = NoThread
    /\ LET id == Params(t).document_id
       IN  IF poisoned
           THEN /\ Finish(t, Err(LockFailed))
                /\ UNCHANGED <<documents, handles, closed>>
           ELSE IF id \notin DOMAIN documents
           THEN /\ Finish(t, Err(DocumentNotFound(id)))
                /\ UNCHANGED <<documents, handles, closed>>
           ELSE /\ documents' = MapRemove(documents, id)
                /\ handles' = Release(handles, documents[id].document)
                /\ closed' = closed \cup {id}
                /\ Finish(t, Ok([success |-> TRUE]))
    /\ UNCHANGED <<lock, poisoned, now, issued, scenario, req, frame, imported, seen, late>>

\* list_documents (session.rs 144-159) with DocumentStore::list
List(t) ==
    /\ pc[t] = "list"
    /\ lock = NoThread
    /\ IF poisoned
       THEN Finish(t, Err(LockFailed))
       ELSE \E order \in IterationOrders(DOMAIN documents) :
                Finish(t, Ok([documents |-> ListEntries(StoreList(documents, order), now)]))
    /\ UNCHANGED <<documents, lock, poisoned, now, handles, issued, scenario, req,
                   frame, imported, closed, seen, late>>

\* a faulty variant of GetPageCount: the record is touched on the way, as
\* with_document would
GetPageCountTouching(t) ==
    /\ pc[t] = "get_info"
    /\ lock = NoThread
    /\ LET id == Params(t).document_id
           info == GetInfo(documents, id)
       IN  IF poisoned
           THEN Finish(t, Err(LockFailed)) /\ UNCHANGED documents
           ELSE IF info.ok
           THEN /\ documents' = [documents EXCEPT ![id] = Touch(@, now)]
                /\ Finish(t, Ok([page_count |-> info.value.page_count]))
           ELSE Finish(t, info) /\ UNCHANGED documents
    /\ UNCHANGED <<lock, poisoned, now, handles, issued, scenario, req,
                   frame, imported, closed, seen, late>>

\* get_page_count (document.rs 27-35) with DocumentStore::get_info
GetPageCount(t) ==
    /\ pc[t] = "get_info"
    /\ lock = NoThread
    /\ LET info == GetInfo(documents, Params(t).document_id)
       IN  IF poisoned THEN Finish(t, Err(LockFailed))
           ELSE IF info.ok THEN Finish(t, Ok([page_count |-> info.value.page_count]))
           ELSE Finish(t, info)
    /\ UNCHANGED <<documents, lock, poisoned, now, handles, issued, scenario, req,
                   frame, imported, closed, seen, late>>

(***************************************************************************)
(* DocumentStore::with_document (state.rs 126-141): the lock is taken, the *)
(* record looked up and touched, and the closure run with the guard held.  *)
(***************************************************************************)
WithDocument(t) ==
    /\ pc[t] = "with_document"
    /\ lock = NoThread
    /\ LET id == Params(t).document_id
       IN  IF poisoned
           THEN /\ Finish(t, Err(LockFailed))
                /\ UNCHANGED <<documents, lock, frame>>
           ELSE IF id \notin DOMAIN documents
           THEN /\ Finish(t, Err(DocumentNotFound(id)))
                /\ UNCHANGED <<documents, lock, frame>>
           ELSE /\ documents' = [documents EXCEPT ![id] = Touch(@, now)]
                /\ lock' = t
                /\ frame' = [frame EXCEPT ![t].doc = documents[id].document]
                /\ Continue(t, "closure")
    /\ UNCHANGED <<poisoned, now, handles, issued, scenario, req, imported, closed, seen, late>>

\* what the tool's closure f(&stored.document) returns
ClosureOutcome(name, p, doc, fault, meta, outlines) ==
    CASE name = "get_metadata" -> get_metadata(p, doc, meta)
      [] name = "get_outlines" -> get_outlines(p, doc, fault, outlines)
      [] name = "get_page_bounds" -> get_page_bounds(p, doc, fault)
      [] name = "get_page_text" -> get_page_text(p, doc, fault)
      [] name = "search_page" -> search_page(p, doc, fault)
      [] name = "render_page" -> render_page(p, doc, fault)

\* a faulty variant of Closure: the guard is leaked (mem::forget), so the
\* Mutex stays locked after the closure returned
ClosureKeepsLock(t) ==
    /\ pc[t] = "closure"
    /\ lock = t
    /\ \E fault \in Faults(ClosureFaults(req[t].name)),
          meta \in ClosureMetadata(req[t].name),
          outlines \in ClosureOutlines(req[t].name) :
        LET o == ClosureOutcome(req[t].name, Params(t), handles[frame[t].doc],
                                fault, meta, outlines)
        IN  /\ frame' = [frame EXCEPT ![t] = Returned(o.calls)]
            /\ Finish(t, o.res)
    /\ UNCHANGED <<documents, lock, poisoned, now, handles, issued, scenario, req,
                   imported, closed, seen, late>>

\* state.rs 140: f(&stored.document), then the guard is dropped
Closure(t) ==
    /\ pc[t] = "closure"
    /\ lock = t
    /\ \E fault \in Faults(ClosureFaults(req[t].name)),
          meta \in ClosureMetadata(req[t].name),
          outlines \in ClosureOutlines(req[t].name) :
        LET o == ClosureOutcome(req[t].name, Params(t), handles[frame[t].doc],
                                fault, meta, outlines)
        IN  /\ frame' = [frame EXCEPT ![t] = Returned(o.calls)]
            /\ Finish(t, o.res)
    /\ lock' = NoThread
    /\ UNCHANGED <<documents, poisoned, now, handles, issued, scenario, req,
                   imported, closed, seen, late>>

(***************************************************************************)
(* oneshot_get_bookmarks (highlevel.rs 69-86): no store, no lock.          *)
(***************************************************************************)
OneshotOpen(t) ==
    /\ pc[t] = "oneshot_open"
    /\ OpenStep(t, "oneshot_body")

\* a faulty variant of OneshotBody: the document goes through the store and
\* is left there
OneshotBodyViaStore(t) ==
    /\ pc[t] = "oneshot_body"
    /\ \E id \in NewV4, outlines \in OutlineSamples :
        LET h == frame[t].doc
        IN  /\ documents' = MapInsert(documents, id,
                                      StoredDocumentNew(h, handles[h].pages, now, id))
            /\ issued' = issued \cup {id}
            /\ frame' = [frame EXCEPT ![t] =
                            Returned(frame[t].calls \o <<"page_count", "outlines">>)]
            /\ Finish(t, Ok([bookmarks |-> collect_all(outlines, 0),
                             page_count |-> handles[h].pages]))
    /\ UNCHANGED <<lock, poisoned, now, handles, scenario, req, imported, closed, seen, late>>

\* highlevel.rs 73-85; doc is dropped when the function returns
OneshotBody(t) ==
    /\ pc[t] = "oneshot_body"
    /\ \E fault \in Faults({"none", "page_count", "outlines"}),
          outlines \in OutlineSamples :
        LET h == frame[t].doc
            r == IF fault = "page_count" THEN Err(MupdfError("page_count"))
                 ELSE IF fault = "outlines" THEN Err(MupdfError("outlines"))
                 ELSE Ok([bookmarks |-> collect_all(outlines, 0),
                          page_count |-> handles[h].pages])
        IN  /\ frame' = [frame EXCEPT ![t] =
                    Returned(IF fault = "page_count"
                             THEN Append(frame[t].calls, "page_count")
                             ELSE frame[t].calls \o <<"page_count", "outlines">>)]
            /\ handles' = Release(handles, h)
            /\ Finish(t, r)
    /\ UNCHANGED <<documents, lock, poisoned, now, issued, scenario, req,
                   imported, closed, seen, late>>

\* time passes: Instant::now() is monotonic.  A call's readings of the clock
\* (state.rs 37, 53; session.rs 154) fall within one of its steps, so the
\* ticks that fall within a call are taken before it or after it.
Tick ==
    /\ now < MaxTime
    /\ \A t \in Threads : pc[t] \in {"idle", "off"}
    /\ now' = now + 1
    /\ UNCHANGED <<documents, lock, poisoned, handles, issued, scenario, pc, req,
                   frame, result, response, imported, closed, seen, late>>

\* a step of the call in slot t
Step(t) ==
    \/ CallTool(t)
    \/ Reply(t)
    \/ ImportOpen(t)
    \/ ImportPageCount(t)
    \/ InsertNew(t)
    \/ InsertLock(t)
    \/ Remove(t)
    \/ List(t)
    \/ GetPageCount(t)
    \/ WithDocument(t)
    \/ Closure(t)
    \/ OneshotOpen(t)
    \/ OneshotBody(t)

\* the closure panics inside with_document (state.rs 140): unwinding drops
\* the MutexGuard, which releases the Mutex and marks it poisoned; the task
\* of the call ends without a response
Panic(t) ==
    /\ pc[t] = "closure"
    /\ lock = t
    /\ lock' = NoThread
    /\ poisoned' = TRUE
    /\ pc' = [pc EXCEPT ![t] = "idle"]
    /\ req' = [req EXCEPT ![t] = NoRequest]
    /\ frame' = [frame EXCEPT ![t] = EmptyFrame]
    /\ result' = [result EXCEPT ![t] = NoResult]
    /\ response' = [response EXCEPT ![t] = NoResponse]
    /\ seen' = [seen EXCEPT ![t] = "none"]
    /\ late' = [late EXCEPT ![t] = FALSE]
    /\ UNCHANGED <<documents, now, handles, issued, scenario, imported, closed>>

\* the calls race within one reading of the clock
NextUntimed == \E t \in Threads : Step(t)

Next == (\E t \in Threads : Step(t)) \/ Tick

Spec == Init /\ [][NextUntimed]_vars

\* the steps of the call in slot t that take the Mutex (self.inner.lock())
LockSteps(t) ==
    \/ InsertLock(t)
    \/ Remove(t)
    \/ List(t)
    \/ GetPageCount(t)
    \/ WithDocument(t)

\* the steps of the call in slot t that wait for nothing
FreeSteps(t) ==
    \/ Reply(t)
    \/ ImportOpen(t)
    \/ ImportPageCount(t)
    \/ InsertNew(t)
    \/ Closure(t)
    \/ OneshotOpen(t)
    \/ OneshotBody(t)

\* every call runs on a thread that is scheduled again and again and every
\* engine call terminates (weak fairness of the steps that wait for nothing);
\* a thread blocked in lock() gets the Mutex at one of the unlocks if it is
\* unlocked again and again (strong fairness of the locking steps).  Callers
\* need not send anything.
Fairness ==
    \A t \in Threads : WF_vars(FreeSteps(t)) /\ SF_vars(LockSteps(t))

SpecLive == InitUniform /\ [][NextUntimed]_vars /\ Fairness

\* the racing calls, any of which may panic inside its critical section
NextPanic == \E t \in Threads : Step(t) \/ Panic(t)

\* one caller sending every request shape, with engine faults and panics
\* inside the critical section, within one reading of the clock
SpecFaulty == InitSequential /\ [][NextPanic]_vars

SpecPanic == Init /\ [][NextPanic]_vars

SpecSequential == InitSequential /\ [][Next]_vars

(***************************************************************************)
(* Properties.                                                             *)
(***************************************************************************)
\* the call in slot t has returned, and it was a call of tool `name` whose
\* arguments parsed
Returns(t, name) ==
    /\ pc[t] = "done"
    /\ req[t].name = name
    /\ IsSome(ParseParams(name, req[t].args))

\* the handler's outcome in slot t is the error e
Failed(t, e) ==
    /\ result[t] = Err(e)
    /\ response[t] = ToolError(Display(e))

\* C1: every step that touches a document handle (open, needs_password,
\* authenticate and page_count of import_document, page_count inside insert,
\* the whole of oneshot_get_bookmarks, the closures of with_document) is
\* confined by the store lock or an equivalent, so that in no reachable state
\* two calls are in the middle of engine work on handles at the same time.
\* A call is in the middle of engine work when it owns an open Document and
\* has engine calls on it still to make.
TouchesHandle(t) ==
    pc[t] \in {"import_page_count", "insert_new", "oneshot_body", "closure"}

C1_HandleStepsAreExclusive ==
    \A t, u \in Threads : t # u => ~(TouchesHandle(t) /\ TouchesHandle(u))

\* C2: two close_document calls on the same id, both sent while the id was
\* open: exactly one returns {success: true} and the other fails with
\* DocumentNotFound; the record is gone and its handle was released exactly
\* once; and close_document never returns success = false.
CloseSucceeded(t) == response[t] = ToolSuccess(ToJson([success |-> TRUE]))

BothClosed(t, u, d) ==
    /\ t # u
    /\ Returns(t, "close_document") /\ Returns(u, "close_document")
    /\ Params(t).document_id = d /\ Params(u).document_id = d
    /\ seen[t] = "open" /\ seen[u] = "open"

C2_ConcurrentCloseSucceedsOnce ==
    /\ \A t, u \in Threads : \A d \in UuidPool :
         BothClosed(t, u, d) =>
            /\ \/ CloseSucceeded(t) /\ Failed(u, DocumentNotFound(d))
               \/ CloseSucceeded(u) /\ Failed(t, DocumentNotFound(d))
            /\ d \notin DOMAIN documents
            /\ d \in closed
            /\ handles[imported[d]].released = 1
    /\ \A t \in Threads :
         (Returns(t, "close_document") /\ result[t].ok) =>
            result[t].value = ToJson([success |-> TRUE])
    /\ \A h \in DOMAIN handles : handles[h].released <= 1

C2_Witness ==
    \E t, u \in Threads : \E d \in UuidPool :
        BothClosed(t, u, d) /\ CloseSucceeded(t) /\ Failed(u, DocumentNotFound(d))

\* C3: a stateful operation on an id that was never issued, or that had been
\* closed when the call was sent, fails with DocumentNotFound(id) and makes
\* no engine call.
StatefulTools ==
    {"get_page_count", "get_metadata", "get_outlines", "get_page_bounds",
     "get_page_text", "search_page", "render_page", "close_document"}

NeverOpenAgain(t) ==
    seen[t] = "closed" \/ Params(t).document_id \notin DOMAIN imported

C3_ClosedOrUnknownIdNotFound ==
    \A t \in Threads : \A name \in StatefulTools :
        (Returns(t, name) /\ NeverOpenAgain(t)) =>
            /\ Failed(t, DocumentNotFound(Params(t).document_id))
            /\ frame[t].calls = << >>

C3_Witness ==
    \E t \in Threads :
        /\ Returns(t, "get_page_text")
        /\ seen[t] = "closed"
        /\ Failed(t, DocumentNotFound(Params(t).document_id))

\* C4: when list_documents reads the store, the ids it returns are exactly
\* the ids returned by a successful import and not yet closed, each once.
C4_ListIsImportedNotClosed ==
    [][\A t \in Threads :
         (pc[t] = "list" /\ pc'[t] = "done" /\ result'[t].ok) =>
            LET docs == result'[t].value.json.documents
            IN  /\ { docs[i].document_id : i \in DOMAIN docs } = DOMAIN imported \ closed
                /\ \A i, j \in DOMAIN docs :
                     docs[i].document_id = docs[j].document_id => i = j]_vars

C4_Witness ==
    \E t \in Threads :
        /\ Returns(t, "list_documents")
        /\ result[t].ok
        /\ Len(result[t].value.json.documents) = 1
        /\ result[t].value.json.documents[1].document_id \notin closed
        /\ closed # {}

\* C5: the step that completes a successful import_document inserts under an
\* id no open session has, replaces nothing, leaves the id in the store, and
\* get_info on it reports the page count the engine reported for the handle
\* and import_document returned.
C5_ImportStoresUnderFreshId ==
    [][\A t \in Threads :
         (pc[t] = "insert_lock" /\ pc'[t] = "done" /\ result'[t].ok) =>
            LET r == result'[t].value.json
                info == GetInfo(documents', r.document_id)
            IN  /\ r.document_id \notin DOMAIN documents
                /\ \A k \in DOMAIN documents : documents'[k] = documents[k]
                /\ info.ok
                /\ info.value.page_count = r.page_count
                /\ r.page_count = handles'[documents'[r.document_id].document].pages]_vars

C5_Witness ==
    \E t \in Threads :
        /\ Returns(t, "import_document")
        /\ result[t].ok
        /\ result[t].value.json.document_id \in DOMAIN documents
        /\ result[t].value.json.page_count >= 1
        /\ Cardinality(DOMAIN documents) = 2

\* C6: an id removed by close_document is never an id again: it is not in
\* the store, and no import in flight is about to insert under it.
C6_ClosedIdsNeverReturn ==
    /\ closed \cap DOMAIN documents = {}
    /\ \A t \in Threads :
         pc[t] = "insert_lock" => frame[t].info.some.id \notin closed \cup DOMAIN documents

C6_Witness ==
    \E t \in Threads :
        /\ Returns(t, "import_document")
        /\ result[t].ok
        /\ result[t].value.json.document_id \in DOMAIN documents
        /\ closed # {}

\* C7: no step of oneshot_get_bookmarks, succeeding or failing, changes the
\* store's records, allocates an id, or takes or releases the store lock.
C7_OneshotLeavesStoreAlone ==
    [][\A t \in Threads :
         (pc[t] \in {"oneshot_open", "oneshot_body"} /\ pc'[t] # pc[t]) =>
            /\ documents' = documents
            /\ issued' = issued
            /\ imported' = imported
            /\ lock' = lock]_vars

C7_Witness ==
    \E t, u \in Threads :
        /\ Returns(t, "oneshot_get_bookmarks")
        /\ result[t].ok
        /\ lock = u
        /\ DOMAIN documents # {}
        /\ issued = DOMAIN imported

\* C8: a page-scoped operation on an open document whose page count N the
\* engine reported passes validation (goes on to load_page) iff
\* 0 <= page < N, and otherwise fails with
\* InvalidPageNumber{page, total: N, max: N-1}.
PageValidated(t) == \E i \in DOMAIN frame[t].calls : frame[t].calls[i] = "load_page"

OnOpenDocument(t) ==
    /\ seen[t] = "open"
    /\ Params(t).document_id \in DOMAIN documents
    /\ result[t] # Err(MupdfError("page_count"))

C8_PageValidation ==
    \A t \in Threads : \A name \in PageScopedTools :
        (Returns(t, name) /\ OnOpenDocument(t)) =>
            LET N == handles[documents[Params(t).document_id].document].pages
                page == Params(t).page
            IN  /\ PageValidated(t) <=> (0 <= page /\ page < N)
                /\ ~PageValidated(t) => Failed(t, InvalidPageNumber(page, N, N - 1))

C8_Witness ==
    \E t \in Threads : \E name \in PageScopedTools :
        /\ Returns(t, name)
        /\ OnOpenDocument(t)
        /\ LET N == handles[documents[Params(t).document_id].document].pages
           IN  /\ N >= 1
               /\ Params(t).page = N
               /\ Failed(t, InvalidPageNumber(N, N, N - 1))

\* C9: call_tool answers with a protocol fault (invalid params) iff the name
\* is not in the catalog or the arguments do not parse as the tool's
\* parameters; then no handler runs and the store is unchanged; every call
\* that reaches a handler ends in a tool result.
Unbindable(name, args) ==
    name \notin Catalog \/ ~IsSome(ParseParams(name, args))

C9_FaultIffUnknownOrUnparsed ==
    [][\A t \in Threads :
         /\ (pc[t] = "idle" /\ pc'[t] # "idle") =>
               LET bad == Unbindable(req'[t].name, req'[t].args)
               IN  /\ (response'[t].kind = "protocol_fault") <=> bad
                   /\ bad => /\ pc'[t] = "done"
                             /\ result'[t] = NoResult
                             /\ UNCHANGED <<documents, handles, issued, lock>>
                   /\ ~bad => pc'[t] \notin {"idle", "done"}
         /\ (pc[t] \notin {"idle", "done", "off"} /\ pc'[t] = "done") =>
               response'[t].kind = "tool_result"]_vars

C9_Witness ==
    \E t \in Threads :
        /\ pc[t] = "done"
        /\ req[t].name = "get_page_bounds"
        /\ req[t].args.page \notin GoodPages
        /\ ~IsSome(ParseParams(req[t].name, req[t].args))
        /\ DOMAIN documents # {}
        /\ response[t].kind = "protocol_fault"

\* C10: a handler's error leaves call_tool as a tool result marked error
\* whose body is the error's description, a handler's value as a success
\* result whose body is the serialized value; never as a protocol fault.
ErrorSamples ==
    << DocumentNotFound(UnknownId), InvalidPageNumber(-1, 1, 0), PasswordRequired,
       InvalidPassword, InvalidTextFormat("bogus"), Base64Error, IoError,
       MupdfError("open"), LockFailed >>

C10_HandlerOutcomeIsToolResult ==
    /\ \A t \in Threads :
         (pc[t] = "done" /\ result[t] # NoResult) =>
            /\ response[t].kind = "tool_result"
            /\ ~result[t].ok =>
                  /\ response[t].is_error
                  /\ response[t].content = [text |-> Display(result[t].error)]
            /\ result[t].ok =>
                  /\ ~response[t].is_error
                  /\ response[t].content = result[t].value
    /\ \A i \in DOMAIN ErrorSamples :
         Respond(Err(ErrorSamples[i])) = ToolError(Display(ErrorSamples[i]))

C10_Witness ==
    \E t \in Threads :
        /\ Returns(t, "import_document")
        /\ result[t] = Err(InvalidPassword)
        /\ response[t].kind = "tool_result"
        /\ response[t].is_error
        /\ response[t].content = [text |-> <<"Invalid password">>]

\* the format names get_page_text serves (text.rs 59-81)
TextFormats == {"plain", "html", "json", "xml"}

\* slot t's call of `name` takes the step from region `from` to region `to`
Moves(t, name, from, to) ==
    /\ req[t].name = name
    /\ pc[t] = from
    /\ pc'[t] = to

\* the store after the record under id was touched at the present time, and
\* nothing else was changed
Touched(id) == [documents EXCEPT ![id].info.last_accessed = now]

ReturnedLate(t) == pc[t] = "done" /\ late[t] /\ result[t] # NoResult

IsInternal(r) == ~r.ok /\ r.error.kind = "Internal"

\* C12: once the store lock is poisoned, every call issued afterwards fails
\* with an Internal error, the stored records never change again, and the
\* lock stays poisoned.
C12_PoisonedLockFailsEveryCall ==
    [][/\ \A t \in Threads : ReturnedLate(t)' => IsInternal(result'[t])
       /\ poisoned => (poisoned' /\ documents' = documents)]_vars

(***************************************************************************)
(* C13: DocumentStore::with_document                                       *)
(***************************************************************************)
\* the values the closure of the call in slot t can return
ClosureResults(t) ==
    {Serialized(ClosureOutcome(req[t].name, Params(t), handles[frame[t].doc],
                               fault, meta, outlines).res) :
        fault \in Faults(ClosureFaults(req[t].name)),
        meta \in ClosureMetadata(req[t].name),
        outlines \in ClosureOutlines(req[t].name)}

\* C13: with_document(id, op) on an absent id fails with DocumentNotFound
\* without running op and without changing any record; on a present id it
\* sets the record's last_accessed to now before op runs, runs op once with
\* the store lock held, and returns op's value or op's error as it is.
C13_WithDocument ==
    [][\A t \in Threads :
        /\ (pc[t] = "with_document" /\ pc'[t] # "with_document" /\ ~poisoned
                /\ Params(t).document_id \notin DOMAIN documents) =>
              /\ pc'[t] = "done"
              /\ result'[t] = Err(DocumentNotFound(Params(t).document_id))
              /\ frame'[t].calls = << >>
              /\ documents' = documents
              /\ handles' = handles
        /\ (pc[t] = "with_document" /\ pc'[t] # "with_document" /\ ~poisoned
                /\ Params(t).document_id \in DOMAIN documents) =>
              /\ pc'[t] = "closure"
              /\ lock' = t
              /\ documents' = Touched(Params(t).document_id)
              /\ frame'[t].doc = documents[Params(t).document_id].document
              /\ frame'[t].calls = << >>
              /\ result'[t] = NoResult
        /\ (pc[t] = "closure" /\ pc'[t] # "closure") =>
              /\ lock = t
              /\ documents[Params(t).document_id].info.last_accessed = now
              /\ pc'[t] = "done"
              /\ result'[t] \in ClosureResults(t)
              /\ documents' = documents
              /\ lock' = NoThread]_vars

\* a with_document tool has returned its closure's own error on a record that
\* was created earlier and touched by this call
C13_Witness ==
    \E t \in Threads :
        /\ pc[t] = "done"
        /\ req[t].name \in WithDocumentTools
        /\ seen[t] = "open"
        /\ ~result[t].ok
        /\ result[t].error.kind = "MupdfError"
        /\ documents[Params(t).document_id].info.created_at < now
        /\ documents[Params(t).document_id].info.last_accessed = now

(***************************************************************************)
(* C14, C15: which calls refresh last_accessed                             *)
(***************************************************************************)
\* C14: get_info, and with it get_page_count and list_documents, leaves
\* every record's last_accessed and every other part of the store as it was,
\* both when the id is present and when the call fails with
\* DocumentNotFound.
C14_GetInfoLeavesStoreUnchanged ==
    [][\A t \in Threads :
        /\ (pc[t] = "get_info" /\ pc'[t] # "get_info") =>
              /\ documents' = documents
              /\ handles' = handles
              /\ issued' = issued
              /\ lock' = lock
              /\ result'[t] =
                    IF Params(t).document_id \in DOMAIN documents
                    THEN Serialized(Ok([page_count |->
                            documents[Params(t).document_id].info.page_count]))
                    ELSE Err(DocumentNotFound(Params(t).document_id))
        /\ (pc[t] = "list" /\ pc'[t] # "list") =>
              /\ documents' = documents
              /\ handles' = handles
              /\ issued' = issued
              /\ lock' = lock]_vars

\* get_page_count has answered for a record last used before the clock moved
C14_Witness ==
    \E t \in Threads :
        /\ Returns(t, "get_page_count")
        /\ result[t].ok
        /\ documents[Params(t).document_id].info.last_accessed < now

SessionReaders ==
    {"get_page_count", "get_metadata", "get_outlines", "get_page_bounds",
     "get_page_text", "search_page", "render_page"}

\* C15: every stateful call that reads or uses an open session by its
\* document_id refreshes that session's last_accessed: once the call has
\* returned, last_accessed is not earlier than the time the call started.
\* (The clock does not move while a call is in flight, so the time the call
\* started is `now`.)
C15_SessionReadersRefresh ==
    \A t \in Threads :
        (/\ pc[t] = "done"
         /\ req[t].name \in SessionReaders
         /\ seen[t] = "open"
         /\ Params(t).document_id \in DOMAIN documents) =>
            documents[Params(t).document_id].info.last_accessed >= now

(***************************************************************************)
(* C16: DocumentSource::open and passwords                                 *)
(***************************************************************************)
OpenTools == {"import_document", "oneshot_get_bookmarks"}

\* the call in slot t has just opened its source and holds the handle
AfterOpen(t) == pc[t] \in {"import_page_count", "oneshot_body"}

\* the open of the call in slot t failed after needs_password had answered
OpenFailedOnPassword(t) ==
    /\ pc[t] = "done"
    /\ req[t].name \in OpenTools
    /\ IsSome(ParseParams(req[t].name, req[t].args))
    /\ IsSome(frame[t].needs_password)

\* C16: when the opened handle requires a password, the open fails with
\* PasswordRequired if none was supplied and with InvalidPassword if the
\* engine rejects the one supplied, and returns the handle authenticated if
\* the engine accepts it; when the handle requires none, the open succeeds
\* with or without a password.  A failed open returns no handle: the one it
\* created has been released.
C16_PasswordResolution ==
    \A t \in Threads :
        /\ AfterOpen(t) =>
              /\ Live(frame[t].doc)
              /\ IsSome(frame[t].needs_password)
              /\ frame[t].needs_password.some =>
                    /\ IsSome(Params(t).password)
                    /\ Params(t).password.some = DocPassword
                    /\ frame[t].calls[Len(frame[t].calls)] = "authenticate"
              /\ ~frame[t].needs_password.some =>
                    frame[t].calls[Len(frame[t].calls)] = "needs_password"
        /\ OpenFailedOnPassword(t) =>
              /\ frame[t].needs_password.some
              /\ ~result[t].ok
              /\ ~IsSome(Params(t).password) => result[t] = Err(PasswordRequired)
              /\ (IsSome(Params(t).password) /\ result[t].error.kind # "MupdfError") =>
                    /\ result[t] = Err(InvalidPassword)
                    /\ Params(t).password.some # DocPassword
              /\ handles[Len(handles)].released = 1

\* an import with a wrong password has been refused, and its handle released
C16_Witness ==
    \E t \in Threads :
        /\ Returns(t, "import_document")
        /\ IsSome(Params(t).password)
        /\ Failed(t, InvalidPassword)
        /\ handles[Len(handles)].released = 1

(***************************************************************************)
(* C17: a failed import_document                                           *)
(***************************************************************************)
ImportRegions == {"import_open", "import_page_count", "insert_new", "insert_lock"}

\* the call in slot t takes a step of import_document
ImportSteps(t) ==
    /\ req[t].name = "import_document"
    /\ pc[t] \in ImportRegions
    /\ pc'[t] # pc[t]

\* the handles the store holds
StoredHandles(docs) == {docs[id].document : id \in DOMAIN docs}

MalformedBase64(t) ==
    /\ Params(t).source.variant = "Base64"
    /\ ~IsSome(Base64Decode(Params(t).source.base64))

\* C17: the source resolver never touches the store, and an import_document
\* that fails at any stage (malformed base64, unreadable path, engine open
\* error, PasswordRequired, InvalidPassword, page-count failure, unusable
\* lock) leaves the store as it was: no record and no id is added, and the
\* handle the call opened is released.  Malformed base64 fails with the
\* decode error before the engine is asked to open anything.
C17_FailedImportLeavesStore ==
    [][\A t \in Threads : ImportSteps(t) =>
          /\ (pc'[t] # "done" \/ ~result'[t].ok) => documents' = documents
          /\ (pc'[t] = "done" /\ ~result'[t].ok) =>
                /\ response'[t] = ToolError(Display(result'[t].error))
                /\ \A h \in 1..Len(handles') :
                      handles'[h].released = 0 => h \in StoredHandles(documents)
          /\ (pc[t] = "import_open" /\ MalformedBase64(t)) =>
                /\ pc'[t] = "done"
                /\ result'[t] = Err(Base64Error)
                /\ frame'[t].calls = << >>
                /\ handles' = handles]_vars

\* an import has failed at the poisoned lock, after opening its document,
\* with records in the store
C17_Witness ==
    \E t \in Threads :
        /\ Returns(t, "import_document")
        /\ Failed(t, LockFailed)
        /\ DOMAIN documents # {}
        /\ frame[t].calls # << >>

(***************************************************************************)
(* C18: render_page and scale                                              *)
(***************************************************************************)
\* what render_page reports for the page of the call in slot t at scale 1
RenderedAtOne(t) ==
    render_page([Params(t) EXCEPT !.scale = 1], handles[frame[t].doc], "none").res.value

\* C18: for the same page of the same open document, the width and height
\* render_page reports with scale 2.0 are exactly twice those it reports with
\* scale 1.0, whatever the page size.
C18_DoubleScaleDoublesSize ==
    [][\A t \in Threads :
        (/\ Moves(t, "render_page", "closure", "done")
         /\ result'[t].ok
         /\ Params(t).scale = 2) =>
            /\ result'[t].value.json.width = 2 * RenderedAtOne(t).width
            /\ result'[t].value.json.height = 2 * RenderedAtOne(t).height]_vars

(***************************************************************************)
(* C19: defaults of omitted fields                                         *)
(***************************************************************************)
RequiredFields(name) ==
    CASE name \in OpenTools -> {"source"}
      [] name \in {"close_document", "get_page_count", "get_metadata", "get_outlines"} ->
            {"document_id"}
      [] name \in {"get_page_bounds", "get_page_text", "render_page"} ->
            {"document_id", "page"}
      [] name = "search_page" -> {"document_id", "page", "query"}
      [] OTHER -> {}

\* the arguments a with the field f given the value j
With(a, f, j) == [a EXCEPT ![f] = j]

\* C19: an omitted optional field takes its default: get_page_text without
\* format is the call with format "plain" and reports format "plain",
\* render_page without scale is the call with scale 1.0, import_document and
\* oneshot_get_bookmarks without password are the calls with no password;
\* omitting a required field (document_id, page, query, source) is an
\* argument-parse failure.  The handler sees only the typed parameters, so the
\* same typed parameters are the same call.
C19_DefaultsApplied ==
    \A t \in Threads : req[t].name \in BoundTools =>
        LET n == req[t].name
            a == req[t].args
        IN  /\ (\E f \in RequiredFields(n) : a[f].t = "absent") =>
                  /\ ~IsSome(ParseParams(n, a))
                  /\ pc[t] = "done"
                  /\ result[t] = NoResult
                  /\ response[t] = InvalidParamsFault(<<"invalid arguments">>)
            /\ (n = "get_page_text" /\ a.format.t = "absent") =>
                  /\ ParseParams(n, a) = ParseParams(n, With(a, "format", JStr("plain")))
                  /\ (pc[t] = "done" /\ result[t] # NoResult /\ result[t].ok) =>
                        result[t].value.json.format = "plain"
            /\ (n = "render_page" /\ a.scale.t = "absent") =>
                  ParseParams(n, a) = ParseParams(n, With(a, "scale", JNum(1)))
            /\ (n \in OpenTools /\ a.password.t = "absent") =>
                  /\ ParseParams(n, a) = ParseParams(n, With(a, "password", JNull))
                  /\ IsSome(ParseParams(n, a)) => Params(t).password = None

\* get_page_text without a format has answered, in format "plain"
C19_Witness ==
    \E t \in Threads :
        /\ Returns(t, "get_page_text")
        /\ req[t].args.format.t = "absent"
        /\ result[t].ok
        /\ result[t].value.json.format = "plain"

(***************************************************************************)
(* C20: one call inside a handle operation and the other calls             *)
(***************************************************************************)
\* the call in slot u is inside a document operation: dispatched, not yet
\* returned
InOperation(u) == pc[u] \notin {"idle", "done", "off"}

\* C20: while one call is executing an operation on a handle inside
\* with_document, no other document operation (import_document,
\* close_document, list_documents, get_page_count, the page and text
\* operations, oneshot_get_bookmarks; on the same id or another) proceeds
\* until it returns.
C20_HandleOperationBlocksOthers ==
    [][\A t \in Threads : \A u \in Threads \ {t} :
        (pc[t] = "closure" /\ pc'[t] = "closure" /\ InOperation(u)) =>
            pc'[u] = pc[u]]_vars

(***************************************************************************)
(* C21: who owns a document handle                                         *)
(***************************************************************************)
\* the regions in which a call's frame owns the Document it opened
OwningRegions == {"import_page_count", "insert_new", "insert_lock", "oneshot_body"}

\* the owners of handle h: store records and call frames
Owners(h) ==
    {<<"record", id>> : id \in {i \in DOMAIN documents : documents[i].document = h}}
    \cup {<<"frame", t>> : t \in {u \in Threads : pc[u] \in OwningRegions /\ frame[u].doc = h}}

\* C21: each live handle has exactly one owner, a store record or a call
\* frame (an import before its insert, a oneshot call); a handle whose owner
\* is gone has been released, exactly once, and nothing refers to it; a
\* handle is lent to a handler only inside with_document, under the lock, and
\* no frame keeps it after the call.
C21_HandleOwnership ==
    /\ \A h \in 1..Len(handles) :
          /\ handles[h].released = 0 => Cardinality(Owners(h)) = 1
          /\ handles[h].released # 0 =>
                /\ handles[h].released = 1
                /\ Owners(h) = {}
                /\ \A t \in Threads : frame[t].doc # h
    /\ \A t \in Threads :
          /\ pc[t] = "closure" =>
                /\ lock = t
                /\ frame[t].doc \in StoredHandles(documents)
          /\ pc[t] \notin OwningRegions \cup {"closure"} => frame[t].doc = 0

\* one handle has been released by close_document while a oneshot call owns
\* another
C21_Witness ==
    \E t \in Threads :
        /\ pc[t] = "oneshot_body"
        /\ Live(frame[t].doc)
        /\ closed # {}
        /\ \E h \in 1..Len(handles) : handles[h].released = 1

(***************************************************************************)
(* C22: validation and engine work                                         *)
(***************************************************************************)
\* the engine was asked nothing but the page count the bounds check needs
OnlyPageCount(calls) == \A i \in 1..Len(calls) : calls[i] = "page_count"

\* C22: in every page-scoped operation validation precedes engine work: a
\* call refused for its page number has asked the engine nothing beyond the
\* page count, and a get_page_text call with an unrecognized format name is
\* refused before the page is loaded or its text extracted.
C22_ValidationPrecedesEngineWork ==
    \A t \in Threads :
        (/\ pc[t] = "done"
         /\ req[t].name \in PageScopedTools
         /\ IsSome(ParseParams(req[t].name, req[t].args))
         /\ result[t] # NoResult) =>
            /\ (~result[t].ok /\ result[t].error.kind = "InvalidPageNumber") =>
                  OnlyPageCount(frame[t].calls)
            /\ (req[t].name = "get_page_text" /\ Params(t).format \notin TextFormats) =>
                  OnlyPageCount(frame[t].calls)

(***************************************************************************)
(* C23: the fields of a stored record                                      *)
(***************************************************************************)
\* the id the call in slot t names, if it names one
NamedId(t) ==
    IF /\ req[t].name \in BoundTools
       /\ IsSome(ParseParams(req[t].name, req[t].args))
       /\ "document_id" \in DOMAIN Params(t)
    THEN {Params(t).document_id}
    ELSE {}

\* C23: a record's id, page_count and created_at are those set at its
\* insertion and no operation changes them; at insertion last_accessed equals
\* created_at; last_accessed is never below created_at and never decreases;
\* an operation on one id changes no field of a record with another id.
C23_RecordFields ==
    [][/\ \A id \in DOMAIN documents' :
            /\ documents'[id].info.id = id
            /\ documents'[id].info.page_count = handles'[documents'[id].document].pages
            /\ documents'[id].info.last_accessed >= documents'[id].info.created_at
            /\ id \notin DOMAIN documents =>
                  documents'[id].info.last_accessed = documents'[id].info.created_at
            /\ id \in DOMAIN documents =>
                  /\ documents'[id].document = documents[id].document
                  /\ documents'[id].info.id = documents[id].info.id
                  /\ documents'[id].info.page_count = documents[id].info.page_count
                  /\ documents'[id].info.created_at = documents[id].info.created_at
                  /\ documents'[id].info.last_accessed >= documents[id].info.last_accessed
       /\ \A t \in Threads : pc'[t] # pc[t] =>
            \A id \in (DOMAIN documents \cap DOMAIN documents') \ NamedId(t) :
                documents'[id] = documents[id]]_vars

\* one record has been used after the clock moved, beside another that has
\* not been used since its insertion
C23_Witness ==
    \E a \in DOMAIN documents : \E b \in DOMAIN documents \ {a} :
        /\ documents[a].info.last_accessed > documents[a].info.created_at
        /\ documents[b].info.last_accessed = documents[b].info.created_at
        /\ documents[b].info.created_at < now

(***************************************************************************)
(* C24: convert_outline                                                    *)
(***************************************************************************)
KeptPrefixes ==
    { <<"h", "t", "t", "p", ":", "/", "/">>,
      <<"h", "t", "t", "p", "s", ":", "/", "/">>,
      <<"m", "a", "i", "l", "t", "o", ":">> }

\* the URI of node is one the entry must keep
KeepsUri(node) ==
    /\ IsSome(node.uri)
    /\ \E prefix \in KeptPrefixes :
          /\ Len(node.uri.some) >= Len(prefix)
          /\ \A i \in 1..Len(prefix) : node.uri.some[i] = prefix[i]

\* entry is the conversion of node that the claim describes
RECURSIVE Converts(_, _)
Converts(node, entry) ==
    /\ entry.title = node.title
    /\ IsSome(entry.page) <=> IsSome(node.dest)
    /\ IsSome(node.dest) => entry.page = node.dest
    /\ KeepsUri(node) => entry.uri = node.uri
    /\ ~KeepsUri(node) => entry.uri = None
    /\ Len(entry.children) = Len(node.down)
    /\ \A i \in 1..Len(node.down) : Converts(node.down[i], entry.children[i])

ConvertsAll(nodes, entries) ==
    /\ Len(entries) = Len(nodes)
    /\ \A i \in 1..Len(nodes) : Converts(nodes[i], entries[i])

\* C24: every entry get_outlines returns keeps its node's URI iff the URI
\* starts with "http://", "https://" or "mailto:" and has no uri otherwise;
\* its page is present iff the node has a destination, whatever became of the
\* URI; the title is copied and the children are converted in order.
C24_OutlineConversion ==
    \A t \in Threads :
        (Returns(t, "get_outlines") /\ result[t] # NoResult /\ result[t].ok) =>
            \E nodes \in OutlineSamples :
                ConvertsAll(nodes, result[t].value.json.outlines)

\* get_outlines has answered with a kept mailto: URI beside a dropped ftp: one
C24_Witness ==
    \E t \in Threads :
        /\ Returns(t, "get_outlines")
        /\ result[t] # NoResult /\ result[t].ok
        /\ Len(result[t].value.json.outlines) = 2
        /\ result[t].value.json.outlines[1].uri = Some(MailtoUri)
        /\ result[t].value.json.outlines[2].uri = None
        /\ result[t].value.json.outlines[2].children[1].uri = Some(HttpUri)

(***************************************************************************)
(* C25: the outline tree and the bookmark list                             *)
(***************************************************************************)
\* the tree get_outlines returns for the engine's outline `nodes`
TreeOf(nodes) == get_outlines([document_id |-> ""], 0, "none", nodes).res.value.outlines

\* the number of nodes of a forest of entries
RECURSIVE Size(_)
Size(entries) ==
    IF entries = << >> THEN 0
    ELSE 1 + Size(Head(entries).children) + Size(Tail(entries))

\* list is the preorder flattening of the forest `entries`, whose roots are
\* at depth `level`
RECURSIVE IsPreorder(_, _, _)
IsPreorder(entries, level, list) ==
    IF entries = << >> THEN list = << >>
    ELSE LET first == Head(entries)
             n == Size(first.children)
         IN  /\ Len(list) = Size(entries)
             /\ list[1] = [title |-> first.title, page |-> first.page, level |-> level]
             /\ IsPreorder(first.children, level + 1, SubSeq(list, 2, 1 + n))
             /\ IsPreorder(Tail(entries), level, SubSeq(list, 2 + n, Len(list)))

\* a forest of entries has the shape of a forest of outline nodes
RECURSIVE SameShape(_, _)
SameShape(nodes, entries) ==
    /\ Len(entries) = Len(nodes)
    /\ \A i \in 1..Len(nodes) :
          /\ entries[i].title = nodes[i].title
          /\ SameShape(nodes[i].down, entries[i].children)

\* C25: for one outline tree, get_outlines returns a tree of the same shape
\* and oneshot_get_bookmarks returns the preorder flattening of that tree:
\* one entry per node, parents before children, children in order, level the
\* node's depth from 0, title and page those of the tree entry.
C25_BookmarksFlattenOutlines ==
    \A t \in Threads :
        /\ (Returns(t, "get_outlines") /\ result[t] # NoResult /\ result[t].ok) =>
              \E nodes \in OutlineSamples :
                  /\ result[t].value.json.outlines = TreeOf(nodes)
                  /\ SameShape(nodes, result[t].value.json.outlines)
        /\ (Returns(t, "oneshot_get_bookmarks") /\ result[t] # NoResult /\ result[t].ok) =>
              \E nodes \in OutlineSamples :
                  /\ SameShape(nodes, TreeOf(nodes))
                  /\ IsPreorder(TreeOf(nodes), 0, result[t].value.json.bookmarks)

\* oneshot_get_bookmarks has listed two roots and the child of the second
C25_Witness ==
    \E t \in Threads :
        /\ Returns(t, "oneshot_get_bookmarks")
        /\ result[t] # NoResult /\ result[t].ok
        /\ Len(result[t].value.json.bookmarks) = 3
        /\ result[t].value.json.bookmarks[2].level = 0
        /\ result[t].value.json.bookmarks[3].level = 1

(***************************************************************************)
(* C26: get_metadata                                                       *)
(***************************************************************************)
\* out has a field exactly where the engine answered a non-empty string
MetadataMatches(meta, out) ==
    \A f \in MetadataFields :
        /\ IsSome(out[f]) <=> (meta[f].ok /\ meta[f].value # "")
        /\ IsSome(out[f]) => out[f].some = meta[f].value

\* C26: get_metadata on an open document succeeds, and each of its eight
\* fields is present iff the engine returned a non-empty string for it: an
\* empty string and an engine error both give an absent field, never an
\* empty string and never a failure of the call.
C26_MetadataNormalized ==
    \A t \in Threads :
        (Returns(t, "get_metadata") /\ seen[t] = "open" /\ result[t] # NoResult) =>
            /\ result[t].ok
            /\ DOMAIN result[t].value.json = MetadataFields
            /\ \A f \in MetadataFields : result[t].value.json[f] # Some("")
            /\ \E meta \in MetadataSamples :
                  MetadataMatches(meta, result[t].value.json)

\* get_metadata has answered without a title and with an author
C26_Witness ==
    \E t \in Threads :
        /\ Returns(t, "get_metadata")
        /\ result[t] # NoResult /\ result[t].ok
        /\ result[t].value.json.title = None
        /\ result[t].value.json.author = Some("x")

(***************************************************************************)
(* C27: the hits of search_page                                            *)
(***************************************************************************)
\* the handle stored under the id the call in slot t names
StoredHandle(t) == documents[Params(t).document_id].document

\* C27: search_page returns at most 100 hits: when the page has more
\* matches the call still succeeds with the first 100 in the engine's order,
\* when it has 100 or fewer with all of them; each hit keeps the four corners
\* of its match.
C27_SearchHitsCapped ==
    \A t \in Threads :
        (/\ Returns(t, "search_page")
         /\ result[t] # NoResult
         /\ Params(t).document_id \in DOMAIN documents
         /\ frame[t].calls = <<"page_count", "load_page", "search">>) =>
            LET m == handles[StoredHandle(t)].matches
                hits == IF result[t].ok THEN result[t].value.json.hits ELSE << >>
            IN  /\ result[t].ok \/ result[t].error = MupdfError("search")
                /\ result[t].ok =>
                      /\ Len(hits) <= 100
                      /\ Len(hits) = IF m > 100 THEN 100 ELSE m
                      /\ \A i \in 1..Len(hits) :
                            /\ hits[i].ul = Quad(i).ul /\ hits[i].ur = Quad(i).ur
                            /\ hits[i].ll = Quad(i).ll /\ hits[i].lr = Quad(i).lr

\* a search on a page with 101 matches has answered with 100 hits
C27_Witness ==
    \E t \in Threads :
        /\ Returns(t, "search_page")
        /\ result[t] # NoResult /\ result[t].ok
        /\ Params(t).document_id \in DOMAIN documents
        /\ handles[StoredHandle(t)].matches = 101
        /\ Len(result[t].value.json.hits) = 100

PageCall(t) ==
    /\ pc[t] = "done"
    /\ req[t].name \in PageScopedTools
    /\ IsSome(ParseParams(req[t].name, req[t].args))
    /\ result[t] # NoResult

KnownId(t) == Params(t).document_id \in DOMAIN documents
PagesOf(t) == handles[documents[Params(t).document_id].document].pages
OutOfRange(t) == Params(t).page < 0 \/ Params(t).page >= PagesOf(t)
BadFormat(t) == req[t].name = "get_page_text" /\ Params(t).format \notin TextFormats
EngineFailed(t, call) == result[t] = Err(MupdfError(call))

\* the error, and the engine calls made before it, of a call that got past
\* the page-number check
AfterPageCheck(t) ==
    IF EngineFailed(t, "load_page")
    THEN frame[t].calls = <<"page_count", "load_page">>
    ELSE IF req[t].name = "get_page_text" /\ EngineFailed(t, "to_text_page")
    THEN frame[t].calls = <<"page_count", "load_page", "to_text_page">>
    ELSE BadFormat(t) =>
            /\ result[t] = Err(InvalidTextFormat(Params(t).format))
            /\ frame[t].calls = <<"page_count", "load_page", "to_text_page">>

\* C29 as stated: a poisoned lock gives Internal; otherwise an unknown id
\* gives DocumentNotFound; otherwise an out-of-range page gives
\* InvalidPageNumber, whatever the format; otherwise a failure of load_page
\* or to_text_page gives the engine's error; only then does an unrecognized
\* format give InvalidTextFormat.
C29_ErrorOrderAsStated ==
    \A t \in Threads :
        PageCall(t) =>
            IF poisoned
            THEN result[t] = Err(LockFailed) /\ frame[t].calls = << >>
            ELSE IF ~KnownId(t)
            THEN /\ result[t] = Err(DocumentNotFound(Params(t).document_id))
                 /\ frame[t].calls = << >>
            ELSE IF OutOfRange(t)
            THEN /\ result[t] = Err(InvalidPageNumber(Params(t).page, PagesOf(t),
                                                      PagesOf(t) - 1))
                 /\ frame[t].calls = <<"page_count">>
            ELSE AfterPageCheck(t)

\* C29: the same order with the engine's page count in its place: after the
\* lock and the id, a failure of page_count gives the engine's error, and
\* only then does an out-of-range page give InvalidPageNumber.
C29_ErrorOrder ==
    \A t \in Threads :
        PageCall(t) =>
            IF poisoned
            THEN result[t] = Err(LockFailed) /\ frame[t].calls = << >>
            ELSE IF ~KnownId(t)
            THEN /\ result[t] = Err(DocumentNotFound(Params(t).document_id))
                 /\ frame[t].calls = << >>
            ELSE IF EngineFailed(t, "page_count")
            THEN frame[t].calls = <<"page_count">>
            ELSE IF OutOfRange(t)
            THEN /\ result[t] = Err(InvalidPageNumber(Params(t).page, PagesOf(t),
                                                      PagesOf(t) - 1))
                 /\ frame[t].calls = <<"page_count">>
            ELSE AfterPageCheck(t)

C29_Witness ==
    \E t \in Threads :
        /\ PageCall(t)
        /\ ~poisoned /\ KnownId(t)
        /\ OutOfRange(t) /\ BadFormat(t)
        /\ result[t].error.kind = "InvalidPageNumber"


(***************************************************************************)
(* C30: the catalog and the names call_tool binds                          *)
(***************************************************************************)
\* call_tool's answer to a name its match does not bind
UnknownTool(name) == InvalidParamsFault(<<"Unknown tool: ", name>>)

\* a request is in slot t: in a handler, or answered and not yet sent
Received(t) == pc[t] \notin {"idle", "off"}

\* C30: the names list_tools advertises are the names call_tool binds to a
\* handler; a request is rejected as an unknown tool exactly when its name
\* is not advertised, a request with an advertised name is parsed and, when
\* its arguments parse, handed to that tool's handler; the handlers
\* get_page_links, get_page_text_blocks, needs_password, is_pdf,
\* is_reflowable and resolve_link are not advertised.
C30_CatalogClosed ==
    /\ Catalog = BoundTools
    /\ UnboundHandlers \cap Catalog = {}
    /\ \A t \in Threads :
          Received(t) =>
              /\ (req[t].name \notin Catalog) <=>
                    (pc[t] = "done" /\ response[t] = UnknownTool(req[t].name))
              /\ (req[t].name \in Catalog /\ response[t].kind = "protocol_fault") =>
                    ~IsSome(ParseParams(req[t].name, req[t].args))

C30_Witness ==
    \E t \in Threads :
        /\ pc[t] = "done"
        /\ req[t].name = "resolve_link"
        /\ response[t] = UnknownTool("resolve_link")
        /\ DOMAIN documents # {}


(***************************************************************************)
(* C31: the engine's page count and the cached one                         *)
(***************************************************************************)
\* the count cached in the record of an open session (state.rs 36-44)
CachedCount(id) == documents[id].info.page_count
\* the count the engine gives for the session's handle when asked
\* (page.rs 13, text.rs 12)
EngineCount(id) == handles[documents[id].document].pages

\* the value a call has returned
Value(t) == result[t].value.json

\* C31: for every open session the count the engine gives on each call is
\* the count cached at import; import_document, get_page_count and
\* list_documents report the cached count, InvalidPageNumber carries it as
\* total, and a page-scoped call gets past validation iff its page is below
\* the count the others report.
C31_PageCountsAgree ==
    /\ \A id \in DOMAIN documents : EngineCount(id) = CachedCount(id)
    /\ \A t \in Threads :
        /\ (Returns(t, "import_document") /\ result[t].ok
                /\ Value(t).document_id \in DOMAIN documents) =>
              Value(t).page_count = CachedCount(Value(t).document_id)
        /\ (Returns(t, "get_page_count") /\ result[t].ok) =>
              Value(t).page_count = CachedCount(Params(t).document_id)
        /\ (Returns(t, "list_documents") /\ result[t].ok) =>
              \A i \in DOMAIN Value(t).documents :
                  LET e == Value(t).documents[i]
                  IN  e.document_id \in DOMAIN documents =>
                          e.page_count = CachedCount(e.document_id)
        /\ \A name \in PageScopedTools :
              (Returns(t, name) /\ result[t] # NoResult /\ ~poisoned
                   /\ Params(t).document_id \in DOMAIN documents
                   /\ result[t] # Err(MupdfError("page_count"))) =>
                 LET N == CachedCount(Params(t).document_id)
                 IN  /\ PageValidated(t) <=> (0 <= Params(t).page /\ Params(t).page < N)
                     /\ (~result[t].ok /\ result[t].error.kind = "InvalidPageNumber") =>
                            result[t].error.total = N

\* a session is open whose count get_page_count reports, and a page equal
\* to that count has just been rejected with it as total
C31_Witness ==
    \E t \in Threads : \E name \in PageScopedTools :
        /\ Returns(t, name)
        /\ Params(t).document_id \in DOMAIN documents
        /\ CachedCount(Params(t).document_id) >= 1
        /\ Params(t).page = CachedCount(Params(t).document_id)
        /\ result[t] = Err(InvalidPageNumber(Params(t).page, Params(t).page,
                                             Params(t).page - 1))


(***************************************************************************)
(* C32: parsing a source object                                            *)
(***************************************************************************)
\* slot t holds a request of a tool that takes a source, whose source is an
\* object and whose password deserializes
SourceCall(t) ==
    /\ Received(t)
    /\ req[t].name \in OpenTools
    /\ req[t].args.source.t = "object"
    /\ IsSome(ParseOptString(req[t].args.password))

SourceOf(t) == req[t].args.source.o
\* call_tool got typed parameters out of the arguments
Parsed(t) == response[t].kind # "protocol_fault"
\* the request was answered with a protocol fault and the engine was asked
\* nothing
RefusedUnopened(t) ==
    /\ pc[t] = "done"
    /\ response[t].kind = "protocol_fault"
    /\ result[t] = NoResult
    /\ frame[t].calls = << >>

\* the source is opened the way its variant is: Document::open for a
\* FilePath, Document::from_bytes for a Base64
OpenedAs(t, variant) ==
    /\ Params(t).source.variant = variant
    /\ frame[t].calls # << >> =>
          frame[t].calls[1] = (IF variant = "FilePath" THEN "open" ELSE "from_bytes")

ParsedAsFilePath(t) ==
    /\ Parsed(t)
    /\ OpenedAs(t, "FilePath")
    /\ Params(t).source.path = SourceOf(t).path.s

\* the Base64 variant, with a filename iff a string was supplied for it
ParsedAsBase64(t) ==
    /\ Parsed(t)
    /\ OpenedAs(t, "Base64")
    /\ Params(t).source.base64 = SourceOf(t).base64.chars
    /\ IsSome(Params(t).source.filename) <=> SourceOf(t).filename.t = "string"
    /\ SourceOf(t).filename.t = "string" =>
          Params(t).source.filename = Some(SourceOf(t).filename.s)

\* C32 as stated: a source object with a string path parses to FilePath,
\* also when base64 is there too; one without path and with a string base64
\* parses to the Base64 variant, with a filename iff one was supplied; one
\* with neither fails to parse and is answered with a protocol fault,
\* nothing having been opened.
C32_SourceParsingAsStated ==
    \A t \in Threads :
        SourceCall(t) =>
            /\ SourceOf(t).path.t = "string" => ParsedAsFilePath(t)
            /\ (SourceOf(t).path.t = "absent" /\ SourceOf(t).base64.t = "string") =>
                  ParsedAsBase64(t)
            /\ (SourceOf(t).path.t = "absent" /\ SourceOf(t).base64.t = "absent") =>
                  RefusedUnopened(t)

\* C32: the same, where the object without path and with a string base64
\* parses to the Base64 variant when its filename is absent, null or a
\* string, and fails to parse, like the object with neither field, when its
\* filename is of another type.
C32_SourceParsing ==
    \A t \in Threads :
        SourceCall(t) =>
            /\ SourceOf(t).path.t = "string" => ParsedAsFilePath(t)
            /\ (SourceOf(t).path.t = "absent" /\ SourceOf(t).base64.t = "string") =>
                  IF SourceOf(t).filename.t \in {"absent", "null", "string"}
                  THEN ParsedAsBase64(t)
                  ELSE RefusedUnopened(t)
            /\ (SourceOf(t).path.t = "absent" /\ SourceOf(t).base64.t = "absent") =>
                  RefusedUnopened(t)

\* a source with both path and base64 was opened as a file, and the import
\* went through
C32_Witness ==
    \E t \in Threads :
        /\ SourceCall(t)
        /\ pc[t] = "done"
        /\ SourceOf(t).path.t = "string" /\ SourceOf(t).base64.t = "string"
        /\ result[t].ok
        /\ frame[t].calls[1] = "open"

====
